---- MODULE Spec2Model ----
(***************************************************************************)
(* A model of the Typeform Help Center RAG service: the Pinecone-backed    *)
(* VectorStore client (vector_store.py), and the FastAPI application that  *)
(* wraps it (main.py): lifespan, admin guard, request validation and the   *)
(* six request handlers.                                                   *)
(*                                                                         *)
(* Two specifications share the variables:                                 *)
(*   SpecVS  a caller (init_db.py, a test) drives one VectorStore object   *)
(*           directly: create_index, upsert_chunks, search, delete_all,    *)
(*           get_stats, each with every outcome the index provider can     *)
(*           produce;                                                      *)
(*   Spec    the HTTP application: startup, then requests.                 *)
(***************************************************************************)
EXTENDS Integers, Sequences, FiniteSets, TLC

VARIABLES
    settings_admin_token,   \* config.py: settings.admin_token
    settings_embedding_model, \* config.py: settings.embedding_model
    inflight,               \* SpecCC: the position of each admin request in flight
    mw_pending,             \* SpecMW: the requests inside add_request_id
    lifecycle,              \* where the lifespan of main.py stands
    vector_store,           \* main.py global: None or the VectorStore
    rag_engine,             \* main.py global: None or the RAGEngine
    vs_index,               \* VectorStore.index: None or the connected Index
    pc_index,               \* provider: the index of the configured name
    records,                \* provider: id -> record held by that index
    create_requests,        \* provider: create_index requests received
    init_error,             \* the exception raised inside lifespan startup, if any
    arg_chunks,             \* SpecVS: the chunk list handed to upsert_chunks
    arg_batch,              \* SpecVS: the batch_size handed to upsert_chunks
    arg_articles,           \* SpecFn: the article list handed to the document processor
    arg_docs,               \* SpecFn: the context documents handed to the RAG engine
    last,                   \* SpecVS: outcome of the last VectorStore call
    response_headers,       \* SpecMW: the headers of every response sent so far
    uuid_calls,             \* SpecMW: the number of uuid4() calls made so far
    resp                    \* Spec: the last HTTP response

vars == << settings_admin_token, settings_embedding_model, inflight, mw_pending, lifecycle, vector_store, rag_engine, vs_index,
           pc_index, records, create_requests, init_error, arg_chunks, arg_batch, arg_articles, arg_docs, last,
           response_headers, uuid_calls, resp >>

(***************************************************************************)
(* Bounds of the model.                                                    *)
(***************************************************************************)
MaxChunks == 3          \* longest chunk list handed to upsert_chunks
ChunkUnits == 2         \* text units the splitter packs into one chunk
MaxBatch == 2           \* largest batch_size tried in SpecVS
MaxCreateReq == 2       \* provider create requests counted before capping
MaxArticles == 2        \* longest article list handed to the document processor
MaxPieces == 2          \* most text units in the body of one article
MaxDocs == 4            \* longest list of context documents
MaxRequests == 2        \* requests answered in one run of SpecMW

(***************************************************************************)
(* Program constants.                                                      *)
(***************************************************************************)
EmbeddingDim == 1536        \* lifespan: create_index(dimension=1536)
DefaultEmbeddingModel == "text-embedding-3-small"   \* settings.embedding_model
DefaultBatchSize == 100     \* upsert_chunks(batch_size=100)
TopKResults == 3            \* settings.top_k_results
MaxQuestionLen == 1000      \* QueryRequest.question max_length
MinQuestionLen == 1         \* QueryRequest.question min_length
MaxTopK == 10               \* QueryRequest.top_k le
MinTopK == 1                \* QueryRequest.top_k ge

None == "None"
Min(a, b) == IF a < b THEN a ELSE b

\* Python truthiness of an object reference: None is falsy.
Truthy(ref) == ref # None

\* One call made to an external provider: its name and what was passed.
Call(fn, arg) == [fn |-> fn, arg |-> arg]

\* The result of one VectorStore method: the exception raised (None when it
\* returned), the value returned, the provider calls it issued.
Result(exc, ret, calls) == [exc |-> exc, ret |-> ret, calls |-> calls]

\* main.py 240-244, 338-342: the two routes that change the index.
AdminRequests == { "populate", "clear" }

\* No admin request has been received: pc is the position of the request,
\* sent the number of store calls its handler has made, status its answer.
NotInFlight == [ r \in AdminRequests |-> [ pc |-> "idle", sent |-> 0, status |-> 0 ] ]

\* No request is inside the middleware: drawn holds the uuid4 call of each
\* request whose identifier is drawn and whose handler has not run, handled
\* the answer of each request whose handler has run and whose call_next has
\* not returned, answered the call of each request whose answer awaits its
\* header.
NothingPending == [ drawn |-> {}, handled |-> << >>, answered |-> {} ]

(***************************************************************************)
(* Chunks, as DocumentProcessor.chunk_article builds them, with the        *)
(* embedding generate_embeddings attaches. chunk_id = url + "#chunk-" + i  *)
(* is the pair <<url, i>>: the concatenation is injective in (url, i).     *)
(***************************************************************************)
\* Mutant of chunk_id: the index is left out of the id.
chunk_id_of_url(url, i) == << url, 0 >>

chunk_id(url, i) == << url, i >>

Chunk(url, title, i, n, embedding) ==
    [ text      |-> << "text", url, i >>,
      embedding |-> embedding,
      metadata  |-> [ title        |-> title,
                      url          |-> url,
                      source       |-> "typeform_help_center",
                      chunk_index  |-> i,
                      total_chunks |-> n,
                      chunk_id     |-> chunk_id(url, i) ] ]

Embeddings == { "e1", "e2" }

\* The chunk lists SpecVS hands to upsert_chunks are drawn from the two chunks
\* of one article and a re-embedded copy of its first chunk (same chunk_id).
ChunkPool ==
    { Chunk("A", "tA", 0, 2, "e1"), Chunk("A", "tA", 1, 2, "e1"), Chunk("A", "tA", 0, 2, "e2") }

RECURSIVE SeqsUpTo(_, _)
SeqsUpTo(S, n) ==
    IF n = 0 THEN { << >> }
    ELSE LET shorter == SeqsUpTo(S, n - 1)
         IN shorter \cup { Append(s, x) : s \in { t \in shorter : Len(t) = n - 1 }, x \in S }

(***************************************************************************)
(* VectorStore.upsert_chunks                                               *)
(***************************************************************************)
\* vector_store.py 112-123: the record sent for one chunk.
vector(chunk) ==
    [ id       |-> chunk.metadata.chunk_id,
      values   |-> chunk.embedding,
      metadata |-> [ text         |-> chunk.text,
                     title        |-> chunk.metadata.title,
                     url          |-> chunk.metadata.url,
                     source       |-> chunk.metadata.source,
                     chunk_index  |-> chunk.metadata.chunk_index,
                     total_chunks |-> chunk.metadata.total_chunks ] ]

\* vector_store.py 110-124: vectors = [vector(chunk) for chunk in chunks]
vectors_of(chunks) == [ j \in 1 .. Len(chunks) |-> vector(chunks[j]) ]

\* The provider's upsert of one batch: each record replaces the record of
\* the same id; within a batch the later record wins.
ProviderUpsert(recs, batch) ==
    LET ids == { batch[j].id : j \in 1 .. Len(batch) }
        lastOf(id) == CHOOSE j \in 1 .. Len(batch) :
                          /\ batch[j].id = id
                          /\ \A m \in 1 .. Len(batch) : batch[m].id = id => m <= j
    IN [ id \in (DOMAIN recs) \cup ids |->
            IF id \in ids THEN batch[lastOf(id)] ELSE recs[id] ]

\* vector_store.py 129: vectors[i:i + batch_size]
batch_slice(vectors, i, batch_size) ==
    SubSeq(vectors, i + 1, Min(i + batch_size, Len(vectors)))

\* Mutant of batches_count: floor instead of ceiling.
batches_count_floor(n, batch_size) == n \div batch_size

\* vector_store.py 138: (len(vectors) + batch_size - 1) // batch_size
batches_count(n, batch_size) == (n + batch_size - 1) \div batch_size

\* Mutant of upsert_loop: a failed batch is skipped and the loop goes on; the
\* failure is raised after the last batch.
RECURSIVE upsert_loop_continue(_, _, _, _, _, _, _, _)
upsert_loop_continue(i, vectors, batch_size, recs, total_upserted, calls, fail_at, applied) ==
    IF i >= Len(vectors)
    THEN [ exc   |-> IF fail_at \in 1 .. Len(calls) THEN "ProviderError" ELSE None,
           total |-> total_upserted, recs |-> recs, calls |-> calls ]
    ELSE LET batch == SubSeq(vectors, i + 1, Min(i + batch_size, Len(vectors)))
             sent  == Append(calls, Call("index.upsert", batch))
             kept  == IF Len(sent) = fail_at /\ ~applied THEN recs
                      ELSE [ id \in (DOMAIN recs) \cup { batch[j].id : j \in 1 .. Len(batch) } |->
                               IF \E j \in 1 .. Len(batch) : batch[j].id = id
                               THEN batch[CHOOSE j \in 1 .. Len(batch) :
                                            /\ batch[j].id = id
                                            /\ \A m \in j + 1 .. Len(batch) : batch[m].id # id]
                               ELSE recs[id] ]
         IN upsert_loop_continue(i + batch_size, vectors, batch_size, kept,
                                 total_upserted + Len(batch), sent, fail_at, applied)

\* vector_store.py 127-132: for i in range(0, len(vectors), batch_size).
\* fail_at = k > 0: the provider raises on the k-th upsert call; applied says
\* whether the provider stored that batch before raising.
RECURSIVE upsert_loop(_, _, _, _, _, _, _, _)
upsert_loop(i, vectors, batch_size, recs, total_upserted, calls, fail_at, applied) ==
    IF i >= Len(vectors)
    THEN [ exc |-> None, total |-> total_upserted, recs |-> recs, calls |-> calls ]
    ELSE LET batch == batch_slice(vectors, i, batch_size)
             sent  == Append(calls, Call("index.upsert", batch))
         IN IF Len(sent) = fail_at
            THEN [ exc   |-> "ProviderError",
                   total |-> total_upserted,
                   recs  |-> IF applied THEN ProviderUpsert(recs, batch) ELSE recs,
                   calls |-> sent ]
            ELSE upsert_loop(i + batch_size, vectors, batch_size,
                             ProviderUpsert(recs, batch),
                             total_upserted + Len(batch), sent, fail_at, applied)

\* vector_store.py 105-106 (and 158, 191, 200): if not self.index: raise ValueError
not_initialized(index) ==
    IF ~Truthy(index) THEN "ValueError" ELSE None

\* Mutant of upsert_chunks: a record is keyed by its chunk_id together with
\* the number of records the index held when the run started.
upsert_chunks_run_ids(index, recs, chunks, batch_size, fail_at, applied) ==
    IF not_initialized(index) # None
    THEN [ res |-> Result(not_initialized(index), None, << >>), recs |-> recs ]
    ELSE LET keyed   == vectors_of(chunks)
             vectors == [ j \in 1 .. Len(keyed) |->
                            [ keyed[j] EXCEPT !.id = << @, Cardinality(DOMAIN recs) >> ] ]
             run     == upsert_loop(0, vectors, batch_size, recs, 0, << >>, fail_at, applied)
         IN IF run.exc # None
            THEN [ res |-> Result(run.exc, None, run.calls), recs |-> run.recs ]
            ELSE [ res  |-> Result(None,
                                   [ total_upserted |-> run.total,
                                     batches |-> batches_count(Len(vectors), batch_size) ],
                                   run.calls),
                   recs |-> run.recs ]

\* vector_store.py 94-139. Returns the result and the provider's records.
upsert_chunks(index, recs, chunks, batch_size, fail_at, applied) ==
    IF not_initialized(index) # None
    THEN [ res |-> Result(not_initialized(index), None, << >>), recs |-> recs ]
    ELSE LET vectors == vectors_of(chunks)
             run     == upsert_loop(0, vectors, batch_size, recs, 0, << >>, fail_at, applied)
         IN IF run.exc # None
            THEN [ res |-> Result(run.exc, None, run.calls), recs |-> run.recs ]
            ELSE [ res  |-> Result(None,
                                   [ total_upserted |-> run.total,
                                     batches |-> batches_count(Len(vectors), batch_size) ],
                                   run.calls),
                   recs |-> run.recs ]

(***************************************************************************)
(* VectorStore.create_index                                                *)
(***************************************************************************)
AbsentIndex == [ exists |-> FALSE, dimension |-> 0, metric |-> None ]
ExistingIndex(dimension, metric) ==
    [ exists |-> TRUE, dimension |-> dimension, metric |-> metric ]

\* What the provider can do during one create_index: answer every call, or
\* raise on list_indexes, on create_index (having created the index or not),
\* or on Index().
CreateOutcomes == { "ok", "list_raises", "create_raises", "create_raises_created",
                    "connect_raises" }

\* Mutant of index_listed: the listing is ignored and the index always created.
index_listed_never(pidx) == FALSE

\* vector_store.py 65: if self.index_name in existing_indexes
index_listed(pidx) == pidx.exists

\* vector_store.py 52-92. Returns the result, self.index, the provider's
\* index and the number of create requests the provider received.
create_index(index, pidx, dimension, metric, outcome) ==
    LET listing == << Call("pc.list_indexes", << >>) >>
        request == Call("pc.create_index", [ dimension |-> dimension, metric |-> metric ])
        connect == Call("pc.Index", << >>)
    IN IF outcome = "list_raises"
       THEN [ res |-> Result("ProviderError", None, listing),
              index |-> index, pidx |-> pidx, requested |-> 0 ]
       ELSE IF index_listed(pidx)
       THEN IF outcome = "connect_raises"
            THEN [ res |-> Result("ProviderError", None, listing \o << connect >>),
                   index |-> index, pidx |-> pidx, requested |-> 0 ]
            ELSE [ res |-> Result(None, None, listing \o << connect >>),
                   index |-> "Index", pidx |-> pidx, requested |-> 0 ]
       ELSE IF outcome = "create_raises"
       THEN [ res |-> Result("ProviderError", None, listing \o << request >>),
              index |-> index, pidx |-> pidx, requested |-> 1 ]
       ELSE IF outcome = "create_raises_created"
       THEN [ res |-> Result("ProviderError", None, listing \o << request >>),
              index |-> index, pidx |-> ExistingIndex(dimension, metric), requested |-> 1 ]
       ELSE IF outcome = "connect_raises"
       THEN [ res |-> Result("ProviderError", None, listing \o << request, connect >>),
              index |-> index, pidx |-> ExistingIndex(dimension, metric), requested |-> 1 ]
       ELSE [ res |-> Result(None, None, listing \o << request, connect >>),
              index |-> "Index", pidx |-> ExistingIndex(dimension, metric), requested |-> 1 ]

(***************************************************************************)
(* VectorStore.search                                                      *)
(***************************************************************************)
\* An optional int: << >> is None, << k >> is k.
NoTopK == << >>
TopK(k) == << k >>

\* Mutant of resolve_top_k: only None falls back to the configured default.
resolve_top_k_none_only(top_k) ==
    IF top_k = NoTopK THEN TopKResults ELSE top_k[1]

\* vector_store.py 161: top_k = top_k or settings.top_k_results
resolve_top_k(top_k) ==
    IF top_k = NoTopK \/ top_k[1] = 0 THEN TopKResults ELSE top_k[1]

\* dict.get(key, ""): the value, or "" when the key is missing.
get(md, key) == IF key \in DOMAIN md THEN md[key] ELSE ""

\* The provider's answer to a query: the top_k records nearest to the query,
\* most similar first; ordering is the provider's ranking of its records.
ProviderQuery(recs, ordering, top_k) ==
    [ j \in 1 .. Min(top_k, Len(ordering)) |->
        [ id       |-> ordering[j],
          score    |-> Len(ordering) + 1 - j,
          metadata |-> recs[ordering[j]].metadata ] ]

\* Mutant of format_results: the matches are formatted last to first.
format_results_reversed(matches) ==
    [ j \in 1 .. Len(matches) |->
        LET m == matches[Len(matches) + 1 - j]
        IN [ id       |-> m.id,
             score    |-> m.score,
             text     |-> get(m.metadata, "text"),
             title    |-> get(m.metadata, "title"),
             url      |-> get(m.metadata, "url"),
             metadata |-> m.metadata ] ]

\* vector_store.py 174-183: one formatted result per match, in order.
format_results(matches) ==
    [ j \in 1 .. Len(matches) |->
        [ id       |-> matches[j].id,
          score    |-> matches[j].score,
          text     |-> get(matches[j].metadata, "text"),
          title    |-> get(matches[j].metadata, "title"),
          url      |-> get(matches[j].metadata, "url"),
          metadata |-> matches[j].metadata ] ]

\* vector_store.py 141-187
search(index, recs, query_embedding, top_k, ordering, raises) ==
    IF not_initialized(index) # None
    THEN Result(not_initialized(index), None, << >>)
    ELSE LET k     == resolve_top_k(top_k)
             query == Call("index.query", [ vector |-> query_embedding, top_k |-> k ])
         IN IF raises
            THEN Result("ProviderError", None, << query >>)
            ELSE Result(None, format_results(ProviderQuery(recs, ordering, k)), << query >>)

(***************************************************************************)
(* VectorStore.delete_all, VectorStore.get_stats                           *)
(***************************************************************************)
EmptyRecords == [ id \in {} |-> None ]

\* What the provider can do with a delete or a stats call.
DeleteOutcomes == { "ok", "raises", "raises_deleted" }

\* Mutant of delete_all: the delete is issued without delete_all=True and
\* removes nothing.
delete_all_nothing(index, recs, outcome) ==
    IF not_initialized(index) # None
    THEN [ res |-> Result(not_initialized(index), None, << >>), recs |-> recs ]
    ELSE LET delete == << Call("index.delete", [ delete_all |-> FALSE ]) >>
         IN IF outcome = "raises"
            THEN [ res |-> Result("ProviderError", None, delete), recs |-> recs ]
            ELSE IF outcome = "raises_deleted"
            THEN [ res |-> Result("ProviderError", None, delete), recs |-> recs ]
            ELSE [ res |-> Result(None, None, delete), recs |-> recs ]

\* vector_store.py 189-196
delete_all(index, recs, outcome) ==
    IF not_initialized(index) # None
    THEN [ res |-> Result(not_initialized(index), None, << >>), recs |-> recs ]
    ELSE LET delete == << Call("index.delete", [ delete_all |-> TRUE ]) >>
         IN IF outcome = "raises"
            THEN [ res |-> Result("ProviderError", None, delete), recs |-> recs ]
            ELSE IF outcome = "raises_deleted"
            THEN [ res |-> Result("ProviderError", None, delete), recs |-> EmptyRecords ]
            ELSE [ res |-> Result(None, None, delete), recs |-> EmptyRecords ]

\* vector_store.py 198-208
get_stats(index, pidx, recs, raises) ==
    IF not_initialized(index) # None
    THEN Result(not_initialized(index), None, << >>)
    ELSE LET describe == << Call("index.describe_index_stats", << >>) >>
         IN IF raises
            THEN Result("ProviderError", None, describe)
            ELSE Result(None,
                        [ total_vectors  |-> Cardinality(DOMAIN recs),
                          dimension      |-> pidx.dimension,
                          index_fullness |-> 0 ],
                        describe)

(***************************************************************************)
(* SpecVS: one VectorStore object driven directly by its caller.           *)
(***************************************************************************)
\* All orderings of a finite set, as sequences without repetition.
Orderings(S) ==
    { f \in [ 1 .. Cardinality(S) -> S ] : \A a, b \in 1 .. Cardinality(S) : a # b => f[a] # f[b] }

\* The state a call found: self.index, the provider's index and records.
Pre == [ index |-> vs_index, pidx |-> pc_index, recs |-> records ]

\* What is kept of one VectorStore call: the method, its arguments, what the
\* provider was made to do during it, its result, and the state it found.
Done(op, args, fault, res) ==
    [ op |-> op, args |-> args, fault |-> fault, res |-> res, pre |-> Pre ]

NoCall == [ op |-> "none", args |-> << >>, fault |-> << >>,
            res |-> Result(None, None, << >>),
            pre |-> [ index |-> None, pidx |-> AbsentIndex, recs |-> EmptyRecords ] ]


\* No request has been answered yet.
NoResponse ==
    [ route |-> "none", req |-> << >>, fault |-> << >>,
      globals |-> [ vector_store |-> None, rag_engine |-> None ],
      stored |-> 0,
      status |-> 0, body |-> << >>, calls |-> << >> ]

\* A record left in the index by an earlier ingestion run.
StaleRecords ==
    LET old == vector(Chunk("A", "tA", 0, 2, "e2"))
    IN [ id \in { old.id } |-> old ]

\* vector_store.py 38-50: VectorStore() leaves self.index = None. The provider
\* either has no index of the configured name or has one from an earlier run.
InitVS ==
    /\ settings_embedding_model = DefaultEmbeddingModel
    /\ inflight = NotInFlight
    /\ mw_pending = NothingPending
    /\ settings_admin_token = ""
    /\ lifecycle = "uninitialized"
    /\ vector_store = None
    /\ rag_engine = None
    /\ vs_index = None
    /\ \/ pc_index = AbsentIndex /\ records = EmptyRecords
       \/ pc_index = ExistingIndex(EmbeddingDim, "cosine")
          /\ records = StaleRecords
    /\ create_requests = 0
    /\ init_error = None
    /\ arg_chunks \in SeqsUpTo(ChunkPool, MaxChunks)
    /\ arg_batch \in 1 .. MaxBatch
    /\ arg_articles = << >>
    /\ arg_docs = << >>
    /\ last = NoCall
    /\ resp = NoResponse
    /\ response_headers = << >>
    /\ uuid_calls = 0

AppUnchanged ==
    UNCHANGED << settings_admin_token, settings_embedding_model, inflight, mw_pending,
                 lifecycle, vector_store, rag_engine, init_error, resp,
                 response_headers, uuid_calls >>

Call_create_index ==
    \E outcome \in CreateOutcomes :
        LET r == create_index(vs_index, pc_index, EmbeddingDim, "cosine", outcome)
        IN /\ create_requests + r.requested <= MaxCreateReq
           /\ vs_index' = r.index
           /\ pc_index' = r.pidx
           /\ create_requests' = create_requests + r.requested
           /\ last' = Done("create_index", << EmbeddingDim, "cosine" >>, outcome, r.res)
           /\ UNCHANGED << records, arg_chunks, arg_batch, arg_articles, arg_docs >>
           /\ AppUnchanged

Call_upsert_chunks ==
    \E fail_at \in 0 .. Len(arg_chunks), applied \in BOOLEAN :
        LET r == upsert_chunks(vs_index, records, arg_chunks, arg_batch, fail_at, applied)
        IN /\ records' = r.recs
           /\ last' = Done("upsert_chunks", [ chunks |-> arg_chunks, batch_size |-> arg_batch ],
                           [ fail_at |-> fail_at, applied |-> applied ], r.res)
           /\ UNCHANGED << vs_index, pc_index, create_requests, arg_chunks, arg_batch, arg_articles, arg_docs >>
           /\ AppUnchanged

Call_search ==
    \E top_k \in { NoTopK, TopK(0), TopK(1), TopK(2) },
       ordering \in Orderings(DOMAIN records), raises \in BOOLEAN :
        /\ last' = Done("search", [ top_k |-> top_k ],
                        [ raises |-> raises, ordering |-> ordering ],
                        search(vs_index, records, "q", top_k, ordering, raises))
        /\ UNCHANGED << vs_index, pc_index, records, create_requests, init_error, arg_chunks, arg_batch, arg_articles, arg_docs >>
        /\ AppUnchanged

Call_delete_all ==
    \E outcome \in DeleteOutcomes :
        LET r == delete_all(vs_index, records, outcome)
        IN /\ records' = r.recs
           /\ last' = Done("delete_all", << >>, outcome, r.res)
           /\ UNCHANGED << vs_index, pc_index, create_requests, arg_chunks, arg_batch, arg_articles, arg_docs >>
           /\ AppUnchanged

Call_get_stats ==
    \E raises \in BOOLEAN :
        /\ last' = Done("get_stats", << >>, raises,
                        get_stats(vs_index, pc_index, records, raises))
        /\ UNCHANGED << vs_index, pc_index, records, create_requests, init_error, arg_chunks, arg_batch, arg_articles, arg_docs >>
        /\ AppUnchanged

NextVS ==
    \/ Call_create_index
    \/ Call_upsert_chunks
    \/ Call_search
    \/ Call_delete_all
    \/ Call_get_stats

SpecVS == InitVS /\ [][NextVS]_vars

(***************************************************************************)
(* main.py: the HTTP application.                                          *)
(***************************************************************************)
\* The X-Admin-Token header of a request that carries none.
NoHeader == "<missing>"

\* What is kept of one request: the route, what the request carried, what the
\* providers were made to do during it, the globals the handler found, the
\* number of records the index held, and the response: status, body, and the
\* external calls the handler issued.
Response(route, req, fault, status, body, calls) ==
    [ route |-> route, req |-> req, fault |-> fault,
      globals |-> [ vector_store |-> vector_store, rag_engine |-> rag_engine ],
      stored |-> Cardinality(DOMAIN records),
      status |-> status, body |-> body, calls |-> calls ]

\* Mutant of require_admin: the header is compared even when no token is set.
require_admin_always(admin_token, x_admin_token) ==
    x_admin_token # admin_token

\* main.py 44-50: TRUE when the dependency raises 401.
require_admin(admin_token, x_admin_token) ==
    admin_token # "" /\ x_admin_token # admin_token

\* Mutant of unset: the handler never finds its singleton missing.
unset_never(ref) == FALSE

\* main.py 169, 211, 260, 319, 352: if not vector_store / if not rag_engine
unset(ref) == ~Truthy(ref)

\* Mutant of health_check: unhealthy until the vector store is set.
health_check_needs_store(vs, re) ==
    [ status |-> IF Truthy(vs) THEN 200 ELSE 503,
      body   |-> [ status |-> "healthy",
                   vector_store_initialized |-> Truthy(vs),
                   rag_engine_initialized   |-> Truthy(re) ],
      calls  |-> << >> ]

\* main.py 155-163
health_check(vs, re) ==
    [ status |-> 200,
      body   |-> [ status |-> "healthy",
                   vector_store_initialized |-> vs # None,
                   rag_engine_initialized   |-> re # None ],
      calls  |-> << >> ]

\* main.py 145-152
root ==
    [ status |-> 200,
      body   |-> [ message |-> "Typeform Help Center Chatbot API",
                   version |-> "1.0.0",
                   docs    |-> "/docs" ],
      calls  |-> << >> ]

\* Mutant of readiness_check: ready as soon as both singletons are set.
readiness_check_no_probe(vs, re, index, pidx, recs, raises) ==
    IF unset(vs) \/ unset(re)
    THEN [ status |-> 503, body |-> [ detail |-> "Services not initialized" ], calls |-> << >> ]
    ELSE [ status |-> 200,
           body   |-> [ status |-> "ready", vector_store_initialized |-> TRUE,
                        rag_engine_initialized |-> TRUE ],
           calls  |-> << >> ]

\* main.py 166-189
readiness_check(vs, re, index, pidx, recs, raises) ==
    IF unset(vs) \/ unset(re)
    THEN [ status |-> 503, body |-> [ detail |-> "Services not initialized" ], calls |-> << >> ]
    ELSE LET probe == get_stats(index, pidx, recs, raises)
         IN IF probe.exc # None
            THEN [ status |-> 503, body |-> [ detail |-> "Vector store not ready" ],
                   calls |-> probe.calls ]
            ELSE [ status |-> 200,
                   body   |-> [ status |-> "ready", vector_store_initialized |-> TRUE,
                                rag_engine_initialized |-> TRUE ],
                   calls  |-> probe.calls ]

\* A request body of POST /query: question is << >> when the field is missing
\* and << n >> for a string of n characters; top_k is << >> or << k >>.
QueryBody(question, top_k, include_sources) ==
    [ question |-> question, top_k |-> top_k, include_sources |-> include_sources ]

\* Mutant of QueryRequest_valid: the empty question is let through.
QueryRequest_valid_no_min(body) ==
    /\ body.question # << >>
    /\ body.question[1] <= MaxQuestionLen
    /\ body.top_k # << >> => (body.top_k[1] >= MinTopK /\ body.top_k[1] <= MaxTopK)

\* main.py 54-58: the Field constraints of QueryRequest.
QueryRequest_valid(body) ==
    /\ body.question # << >>
    /\ body.question[1] >= MinQuestionLen
    /\ body.question[1] <= MaxQuestionLen
    /\ body.top_k # << >> => (body.top_k[1] >= MinTopK /\ body.top_k[1] <= MaxTopK)

\* What the providers can do during one query.
QueryFaults == { "ok", "embed_raises", "search_raises", "llm_raises" }

\* rag_engine.py 236: doc.get("score", 0.0)
get_score(doc) == IF "score" \in DOMAIN doc THEN doc.score ELSE 0

\* One entry of the sources list (rag_engine.py 233-237).
Source(doc) ==
    [ title |-> get(doc, "title"), url |-> get(doc, "url"), relevance_score |-> get_score(doc) ]

\* Mutant of extract_loop: no seen_urls test, every document with a url is kept.
RECURSIVE extract_loop_no_seen(_, _, _)
extract_loop_no_seen(docs, seen_urls, sources) ==
    IF docs = << >> THEN sources
    ELSE LET doc == Head(docs)
             url == get(doc, "url")
         IN IF url # ""
            THEN extract_loop_no_seen(Tail(docs), seen_urls \cup { url },
                                      Append(sources, Source(doc)))
            ELSE extract_loop_no_seen(Tail(docs), seen_urls, sources)

\* rag_engine.py 230-238: the loop of _extract_sources.
RECURSIVE extract_loop(_, _, _)
extract_loop(docs, seen_urls, sources) ==
    IF docs = << >> THEN sources
    ELSE LET doc == Head(docs)
             url == get(doc, "url")
         IN IF url # "" /\ url \notin seen_urls
            THEN extract_loop(Tail(docs), seen_urls \cup { url }, Append(sources, Source(doc)))
            ELSE extract_loop(Tail(docs), seen_urls, sources)

\* rag_engine.py 217-240
_extract_sources(docs) == extract_loop(docs, {}, << >>)

\* A piece of a formatted string: literal text, a number written out, or the
\* value of a field.
Tok(kind, v) == << kind, v >>

\* Mutant of context_part: the label counts from 0.
context_part_from_zero(i, doc) ==
    << Tok("lit", "[Source "), Tok("int", i - 1), Tok("lit", "] "), Tok("str", doc.title),
       Tok("lit", "\n"), Tok("str", doc.text), Tok("lit", "\n") >>

\* rag_engine.py 211-213: f"[Source {i}] {doc['title']}\n{doc['text']}\n"
context_part(i, doc) ==
    << Tok("lit", "[Source "), Tok("int", i), Tok("lit", "] "), Tok("str", doc.title),
       Tok("lit", "\n"), Tok("str", doc.text), Tok("lit", "\n") >>

\* Python's sep.join(parts).
RECURSIVE join(_, _)
join(sep, parts) ==
    IF parts = << >> THEN << >>
    ELSE IF Len(parts) = 1 THEN parts[1]
    ELSE parts[1] \o sep \o join(sep, Tail(parts))

\* rag_engine.py 199-215: enumerate(docs, 1), then "\n".join(context_parts).
_format_context(docs) ==
    join(<< Tok("lit", "\n") >>, [ i \in 1 .. Len(docs) |-> context_part(i, docs[i]) ])

\* doc['title'] and doc['text'] raise KeyError on a document without the key.
KeyError(docs) ==
    \E i \in 1 .. Len(docs) : ~({ "title", "text" } \subseteq DOMAIN docs[i])

\* rag_engine.py 140-144: the messages handed to the language model.
format_messages(context, question) == [ context |-> context, question |-> question ]

\* Mutant of generate: num_sources counts the entries of the sources list.
generate_counts_sources(query, context_docs, include_sources, raises) ==
    IF KeyError(context_docs) THEN Result("KeyError", None, << >>)
    ELSE LET prompt == format_messages(_format_context(context_docs), query)
             invoke == << Call("llm.invoke", prompt) >>
             count  == Len(_extract_sources(context_docs))
         IN IF raises
            THEN Result("ProviderError", None, invoke)
            ELSE IF include_sources
            THEN Result(None, [ answer |-> "answer", query |-> query, num_sources |-> count,
                                sources |-> _extract_sources(context_docs) ], invoke)
            ELSE Result(None, [ answer |-> "answer", query |-> query, num_sources |-> count ],
                        invoke)

\* rag_engine.py 120-164: the sources key is set only under include_sources.
generate(query, context_docs, include_sources, raises) ==
    IF KeyError(context_docs) THEN Result("KeyError", None, << >>)
    ELSE LET prompt == format_messages(_format_context(context_docs), query)
             invoke == << Call("llm.invoke", prompt) >>
             count  == Len(context_docs)
         IN IF raises
            THEN Result("ProviderError", None, invoke)
            ELSE IF include_sources
            THEN Result(None, [ answer |-> "answer", query |-> query, num_sources |-> count,
                                sources |-> _extract_sources(context_docs) ], invoke)
            ELSE Result(None, [ answer |-> "answer", query |-> query, num_sources |-> count ],
                        invoke)

\* Mutant of rag_query: a failed completion is attempted a second time.
rag_query_retry(index, recs, body, ordering, fault) ==
    LET embed == << Call("embeddings.embed_query", body.question) >>
    IN IF fault = "embed_raises"
       THEN Result("ProviderError", None, embed)
       ELSE LET found == search(index, recs, << "emb", body.question >>, body.top_k,
                                ordering, fault = "search_raises")
            IN IF found.exc # None
               THEN Result(found.exc, None, embed \o found.calls)
               ELSE LET answer == generate(body.question, found.ret, body.include_sources,
                                           fault = "llm_raises")
                    IN Result(answer.exc, answer.ret,
                              embed \o found.calls \o answer.calls
                                    \o (IF answer.exc # None THEN answer.calls ELSE << >>))

\* Mutant of rag_query: the retrieved documents are handed to generate last
\* to first.
rag_query_reversed(index, recs, body, ordering, fault) ==
    LET embed == << Call("embeddings.embed_query", body.question) >>
    IN IF fault = "embed_raises"
       THEN Result("ProviderError", None, embed)
       ELSE LET found == search(index, recs, << "emb", body.question >>, body.top_k,
                                ordering, fault = "search_raises")
            IN IF found.exc # None
               THEN Result(found.exc, None, embed \o found.calls)
               ELSE LET docs   == [ j \in 1 .. Len(found.ret) |->
                                      found.ret[Len(found.ret) + 1 - j] ]
                        answer == generate(body.question, docs, body.include_sources,
                                           fault = "llm_raises")
                    IN Result(answer.exc, answer.ret, embed \o found.calls \o answer.calls)

\* rag_engine.py 166-197 (query) and 94-118 (retrieve).
rag_query(index, recs, body, ordering, fault) ==
    LET embed == << Call("embeddings.embed_query", body.question) >>
    IN IF fault = "embed_raises"
       THEN Result("ProviderError", None, embed)
       ELSE LET found == search(index, recs, << "emb", body.question >>, body.top_k,
                                ordering, fault = "search_raises")
            IN IF found.exc # None
               THEN Result(found.exc, None, embed \o found.calls)
               ELSE LET answer == generate(body.question, found.ret, body.include_sources,
                                           fault = "llm_raises")
                    IN Result(answer.exc, answer.ret, embed \o found.calls \o answer.calls)

\* main.py 61-66: a field the result does not set takes its default, and
\* sources defaults to None; the response model is serialised with every
\* field (main.py 192 sets no response_model_exclude_none).
QueryResponse(result) ==
    [ answer      |-> result.answer,
      query       |-> result.query,
      num_sources |-> result.num_sources,
      sources     |-> IF "sources" \in DOMAIN result THEN result.sources ELSE None ]

\* main.py 192-237, behind the validation of its QueryRequest body.
query_chatbot(re, index, recs, body, ordering, fault) ==
    IF ~QueryRequest_valid(body)
    THEN [ status |-> 422, body |-> [ detail |-> "validation error" ], calls |-> << >> ]
    ELSE IF unset(re)
    THEN [ status |-> 503, body |-> [ detail |-> "RAG engine not initialized" ], calls |-> << >> ]
    ELSE LET result == rag_query(index, recs, body, ordering, fault)
         IN IF result.exc # None
            THEN [ status |-> 500, body |-> [ detail |-> "Query processing failed" ],
                   calls |-> result.calls ]
            ELSE [ status |-> 200, body |-> QueryResponse(result.ret), calls |-> result.calls ]

\* data_ingestion.py 10-16 (Article) with the metadata sample_articles.py
\* 270-274 gives it. content is the sequence of text units of the body; the
\* empty sequence is the empty string.
Article(url, title, content) ==
    [ url |-> url, title |-> title, content |-> content,
      metadata |-> [ title |-> title, url |-> url, source |-> "typeform_help_center" ] ]

\* sample_articles.py 21-408: the two articles.
load_sample_articles ==
    << Article("A", "tA", << "a0", "a1" >>), Article("B", "tB", << "b0" >>) >>

\* data_ingestion.py 19-30
load_help_center_articles == load_sample_articles

\* document_processor.py 78: f"# {article.title}\n\n{article.content}". The
\* heading is one more text unit in front of the body, whatever the body is.
full_text(article) == << << "#", article.title >> >> \o article.content

\* document_processor.py 44-50, 81: RecursiveCharacterTextSplitter.split_text.
\* Consecutive units are packed into chunks of at most ChunkUnits units; a
\* text with no unit gives no chunk. The overlap between neighbouring chunks
\* changes their text only and is left out.
RECURSIVE split_text(_)
split_text(text) ==
    IF text = << >> THEN << >>
    ELSE LET n == Min(ChunkUnits, Len(text))
         IN << SubSeq(text, 1, n) >> \o split_text(SubSeq(text, n + 1, Len(text)))

\* document_processor.py 97-102: the avg_chunk_size of the "Article chunked"
\* log line; the length of a chunk is its number of text units.
RECURSIVE sum_len(_)
sum_len(chunks) == IF chunks = << >> THEN 0 ELSE Len(Head(chunks)) + sum_len(Tail(chunks))

avg_chunk_size(chunks) == IF chunks # << >> THEN sum_len(chunks) \div Len(chunks) ELSE 0

\* Mutant of chunk_article: chunk_index counts from 1.
chunk_article_from_one(article) ==
    LET chunks == split_text(full_text(article))
    IN [ i \in 1 .. Len(chunks) |->
           [ text     |-> chunks[i],
             metadata |-> [ title        |-> article.metadata.title,
                            url          |-> article.metadata.url,
                            source       |-> article.metadata.source,
                            chunk_index  |-> i,
                            total_chunks |-> Len(chunks),
                            chunk_id     |-> chunk_id(article.url, i) ] ] ]

\* document_processor.py 65-104: enumerate(chunks) counts from 0.
chunk_article(article) ==
    LET chunks == split_text(full_text(article))
    IN [ i \in 1 .. Len(chunks) |->
           [ text     |-> chunks[i],
             metadata |-> [ title        |-> article.metadata.title,
                            url          |-> article.metadata.url,
                            source       |-> article.metadata.source,
                            chunk_index  |-> i - 1,
                            total_chunks |-> Len(chunks),
                            chunk_id     |-> chunk_id(article.url, i - 1) ] ] ]

\* document_processor.py 106-127
RECURSIVE chunk_articles(_)
chunk_articles(articles) ==
    IF articles = << >> THEN << >>
    ELSE chunk_article(Head(articles)) \o chunk_articles(Tail(articles))

\* The embeddings provider: one vector per text, in the order of the texts.
embed_documents(texts) == [ j \in 1 .. Len(texts) |-> << "emb", texts[j] >> ]

\* Python's zip(chunks, embeddings) followed by chunk["embedding"] = embedding.
zip_embedding(chunks, embeddings) ==
    [ j \in 1 .. Len(chunks) |->
        IF j <= Len(embeddings)
        THEN [ text      |-> chunks[j].text,
               embedding |-> embeddings[j],
               metadata  |-> chunks[j].metadata ]
        ELSE chunks[j] ]

\* document_processor.py 129-162: one embed_documents call for all texts.
\* except Exception: log, raise hands the provider's own exception on. The
\* chunk dicts are updated in place: chunks is the caller's list afterwards.
generate_embeddings(chunks, raises) ==
    LET texts == [ j \in 1 .. Len(chunks) |-> chunks[j].text ]
        calls == << Call("embeddings.embed_documents", texts) >>
    IN IF raises
       THEN [ exc |-> "ProviderError", ret |-> None, calls |-> calls, chunks |-> chunks ]
       ELSE LET embedded == zip_embedding(chunks, embed_documents(texts))
            IN [ exc |-> None, ret |-> embedded, calls |-> calls, chunks |-> embedded ]

\* Mutant of process_articles: the chunks of each article are embedded by a
\* call of their own.
process_articles_per_article(articles, raises) ==
    LET chunks == chunk_articles(articles)
        texts(k) == LET cs == chunk_article(articles[k])
                    IN [ j \in 1 .. Len(cs) |-> cs[j].text ]
        calls == [ k \in 1 .. Len(articles) |->
                     Call("embeddings.embed_documents", texts(k)) ]
    IN IF raises
       THEN [ exc |-> "ProviderError", ret |-> None, calls |-> calls, chunks |-> chunks ]
       ELSE LET embedded == zip_embedding(chunks,
                                embed_documents([ j \in 1 .. Len(chunks) |-> chunks[j].text ]))
            IN [ exc |-> None, ret |-> embedded, calls |-> calls, chunks |-> embedded ]

\* document_processor.py 164-184
process_articles(articles, raises) == generate_embeddings(chunk_articles(articles), raises)

\* What can go wrong during one populate: the DocumentProcessor or its
\* splitter raises, the embeddings provider raises, the first upsert raises
\* (with or without the batch applied).
PopulateFaults ==
    { "ok", "chunk_raises", "embed_raises", "upsert_raises", "upsert_raises_applied" }

\* Mutant of populate_index: without the except HTTPException: raise clause
\* the 404 is caught by except Exception and answered as a 500.
populate_index_404_as_500(admin_token, x_admin_token, vs, index, recs, articles, fault) ==
    LET failed(calls, after) ==
            [ status |-> 500, body |-> [ detail |-> "Index population failed" ],
              calls |-> calls, recs |-> after ]
    IN IF require_admin(admin_token, x_admin_token)
       THEN [ status |-> 401, body |-> [ detail |-> "Invalid admin token" ], calls |-> << >>,
              recs |-> recs ]
       ELSE IF unset(vs)
       THEN [ status |-> 503, body |-> [ detail |-> "Vector store not initialized" ],
              calls |-> << >>, recs |-> recs ]
       ELSE IF articles = << >>
       THEN failed(<< >>, recs)
       ELSE IF fault = "chunk_raises"
       THEN failed(<< >>, recs)
       ELSE LET chunks == process_articles(articles, fault = "embed_raises")
            IN IF chunks.exc # None
               THEN failed(chunks.calls, recs)
               ELSE LET up == upsert_chunks(index, recs, chunks.ret, DefaultBatchSize,
                                            IF fault = "ok" THEN 0 ELSE 1,
                                            fault = "upsert_raises_applied")
                    IN IF up.res.exc # None
                       THEN failed(chunks.calls \o up.res.calls, up.recs)
                       ELSE [ status |-> 201,
                              body   |-> [ articles_processed |-> Len(articles),
                                           chunks_created     |-> Len(chunks.ret),
                                           total_upserted     |-> up.res.ret.total_upserted,
                                           batches            |-> up.res.ret.batches ],
                              calls  |-> chunks.calls \o up.res.calls, recs |-> up.recs ]

\* main.py 240-305, behind its require_admin dependency. articles is what
\* load_help_center_articles() returned (main.py 267).
populate_index(admin_token, x_admin_token, vs, index, recs, articles, fault) ==
    LET failed(calls, after) ==
            [ status |-> 500, body |-> [ detail |-> "Index population failed" ],
              calls |-> calls, recs |-> after ]
    IN IF require_admin(admin_token, x_admin_token)
       THEN [ status |-> 401, body |-> [ detail |-> "Invalid admin token" ], calls |-> << >>,
              recs |-> recs ]
       ELSE IF unset(vs)
       THEN [ status |-> 503, body |-> [ detail |-> "Vector store not initialized" ],
              calls |-> << >>, recs |-> recs ]
       ELSE IF articles = << >>
       THEN [ status |-> 404, body |-> [ detail |-> "No articles loaded" ],
              calls |-> << >>, recs |-> recs ]
       ELSE IF fault = "chunk_raises"
       THEN failed(<< >>, recs)
       ELSE LET chunks == process_articles(articles, fault = "embed_raises")
            IN IF chunks.exc # None
               THEN failed(chunks.calls, recs)
               ELSE LET up == upsert_chunks(index, recs, chunks.ret, DefaultBatchSize,
                                            IF fault = "ok" THEN 0 ELSE 1,
                                            fault = "upsert_raises_applied")
                    IN IF up.res.exc # None
                       THEN failed(chunks.calls \o up.res.calls, up.recs)
                       ELSE [ status |-> 201,
                              body   |-> [ articles_processed |-> Len(articles),
                                           chunks_created     |-> Len(chunks.ret),
                                           total_upserted     |-> up.res.ret.total_upserted,
                                           batches            |-> up.res.ret.batches ],
                              calls  |-> chunks.calls \o up.res.calls, recs |-> up.recs ]

\* main.py 308-335
get_index_stats(vs, index, pidx, recs, raises) ==
    IF unset(vs)
    THEN [ status |-> 503, body |-> [ detail |-> "Vector store not initialized" ],
           calls |-> << >> ]
    ELSE LET stats == get_stats(index, pidx, recs, raises)
         IN IF stats.exc # None
            THEN [ status |-> 500, body |-> [ detail |-> "Failed to get index stats" ],
                   calls |-> stats.calls ]
            ELSE [ status |-> 200, body |-> stats.ret, calls |-> stats.calls ]

\* main.py 338-369, behind its require_admin dependency.
clear_index(admin_token, x_admin_token, vs, index, recs, outcome) ==
    IF require_admin(admin_token, x_admin_token)
    THEN [ status |-> 401, body |-> [ detail |-> "Invalid admin token" ], calls |-> << >>,
           recs |-> recs ]
    ELSE IF unset(vs)
    THEN [ status |-> 503, body |-> [ detail |-> "Vector store not initialized" ],
           calls |-> << >>, recs |-> recs ]
    ELSE LET del == delete_all(index, recs, outcome)
         IN IF del.res.exc # None
            THEN [ status |-> 500, body |-> [ detail |-> "Failed to clear index" ],
                   calls |-> del.res.calls, recs |-> del.recs ]
            ELSE [ status |-> 204, body |-> << >>, calls |-> del.res.calls, recs |-> del.recs ]

(***************************************************************************)
(* Spec: lifespan startup, then requests.                                  *)
(***************************************************************************)
\* Mutant of lifespan_except: the error is logged and swallowed, and the
\* lifespan goes on to its yield.
lifespan_except_swallow == "ready"

\* main.py 104-106: except Exception: log, raise. The error leaves the
\* lifespan before its yield: startup has failed.
lifespan_except == "failed"

\* The records an earlier run of init_db.py left: the articles' chunks.
PopulatedRecords ==
    LET vs == vectors_of(process_articles(load_sample_articles, FALSE).ret)
    IN [ id \in { vs[j].id : j \in 1 .. Len(vs) } |->
           vs[CHOOSE j \in 1 .. Len(vs) : vs[j].id = id] ]

\* main.py 33-35: both singletons are None until the lifespan runs.
Init ==
    /\ settings_embedding_model = DefaultEmbeddingModel
    /\ inflight = NotInFlight
    /\ mw_pending = NothingPending
    /\ settings_admin_token \in { "", "secret" }
    /\ lifecycle = "uninitialized"
    /\ vector_store = None
    /\ rag_engine = None
    /\ vs_index = None
    /\ \/ pc_index = AbsentIndex /\ records = EmptyRecords
       \/ pc_index = ExistingIndex(EmbeddingDim, "cosine")
          /\ records \in { EmptyRecords, PopulatedRecords }
    /\ create_requests = 0
    /\ init_error = None
    /\ arg_chunks = << >>
    /\ arg_batch = DefaultBatchSize
    /\ arg_articles = << >>
    /\ arg_docs = << >>
    /\ last = NoCall
    /\ resp = NoResponse
    /\ response_headers = << >>
    /\ uuid_calls = 0

DriverUnchanged ==
    UNCHANGED << arg_chunks, arg_batch, arg_articles, arg_docs, last, response_headers,
                 uuid_calls >>

\* main.py 93-96: vector_store = VectorStore(); vector_store.create_index(1536)
lifespan_vector_store ==
    /\ lifecycle = "uninitialized"
    /\ \/ \* VectorStore() raises: the global is not assigned
          /\ init_error' = "ConstructorError"
          /\ lifecycle' = lifespan_except
          /\ UNCHANGED << vector_store, vs_index, pc_index, create_requests >>
       \/ \E outcome \in CreateOutcomes :
             LET r == create_index(None, pc_index, EmbeddingDim, "cosine", outcome)
             IN /\ vector_store' = "VectorStore"
                /\ vs_index' = r.index
                /\ pc_index' = r.pidx
                /\ create_requests' = create_requests + r.requested
                /\ init_error' = r.res.exc
                /\ lifecycle' = IF r.res.exc # None THEN lifespan_except ELSE "initializing"
    /\ UNCHANGED << settings_admin_token, settings_embedding_model, inflight, mw_pending,
                 rag_engine, records, resp >>
    /\ DriverUnchanged

\* main.py 98-108: rag_engine = RAGEngine(vector_store); then the yield
lifespan_rag_engine ==
    /\ lifecycle = "initializing"
    /\ \/ /\ rag_engine' = "RAGEngine"
          /\ lifecycle' = "ready"
          /\ UNCHANGED init_error
       \/ /\ init_error' = "ConstructorError"
          /\ lifecycle' = lifespan_except
          /\ UNCHANGED rag_engine
    /\ UNCHANGED << settings_admin_token, settings_embedding_model, inflight, mw_pending,
                 vector_store, vs_index, pc_index, records,
                    create_requests, resp >>
    /\ DriverUnchanged

\* main.py 110-111: after the yield
lifespan_shutdown ==
    /\ lifecycle = "ready"
    /\ lifecycle' = "shutdown"
    /\ UNCHANGED << settings_admin_token, settings_embedding_model, inflight, mw_pending,
                 vector_store, rag_engine, vs_index, pc_index,
                    records, create_requests, init_error, resp >>
    /\ DriverUnchanged

\* Requests reach the handlers once the lifespan is at its yield (main.py 108)
\* or, for a test client that never runs the lifespan (test_main.py 16),
\* before startup.
ServerAccepts == lifecycle \in { "uninitialized", "ready" }

Headers == { NoHeader, "secret", "wrong" }

QueryBodies ==
    { QueryBody(q, k, s) :
        q \in { << >>, << 0 >>, << 1 >>, << MaxQuestionLen >>, << MaxQuestionLen + 1 >> },
        k \in { NoTopK, TopK(0), TopK(1), TopK(MaxTopK), TopK(MaxTopK + 1) },
        s \in BOOLEAN }

\* Mutant of Unchanged_by_request: the handler drops the rag_engine global.
Unchanged_by_request_drops_engine ==
    /\ rag_engine' = None
    /\ UNCHANGED << settings_admin_token, settings_embedding_model, inflight, mw_pending,
                 lifecycle, vector_store, vs_index,
                    pc_index, create_requests, init_error >>
    /\ DriverUnchanged

\* main.py 155-369: no handler declares vector_store or rag_engine global or
\* assigns the index of the store.
Unchanged_by_request ==
    /\ UNCHANGED << settings_admin_token, settings_embedding_model, inflight, mw_pending,
                 lifecycle, vector_store, rag_engine, vs_index,
                    pc_index, create_requests, init_error >>
    /\ DriverUnchanged

GET_root ==
    /\ ServerAccepts
    /\ resp' = Response("/", << >>, << >>, root.status, root.body, root.calls)
    /\ UNCHANGED records
    /\ Unchanged_by_request

GET_health ==
    /\ ServerAccepts
    /\ LET r == health_check(vector_store, rag_engine)
       IN resp' = Response("/health", << >>, << >>, r.status, r.body, r.calls)
    /\ UNCHANGED records
    /\ Unchanged_by_request

GET_ready ==
    /\ ServerAccepts
    /\ \E raises \in BOOLEAN :
          LET r == readiness_check(vector_store, rag_engine, vs_index, pc_index, records, raises)
          IN resp' = Response("/ready", << >>, raises, r.status, r.body, r.calls)
    /\ UNCHANGED records
    /\ Unchanged_by_request

POST_query ==
    /\ ServerAccepts
    /\ \E body \in QueryBodies, ordering \in Orderings(DOMAIN records), fault \in QueryFaults :
          LET r == query_chatbot(rag_engine, vs_index, records, body, ordering, fault)
          IN resp' = Response("/query", body, fault, r.status, r.body, r.calls)
    /\ UNCHANGED records
    /\ Unchanged_by_request

POST_index_populate ==
    /\ ServerAccepts
    /\ \E x_admin_token \in Headers, fault \in PopulateFaults :
          LET r == populate_index(settings_admin_token, x_admin_token, vector_store,
                                  vs_index, records, load_help_center_articles, fault)
          IN /\ resp' = Response("/index/populate", x_admin_token, fault,
                                 r.status, r.body, r.calls)
             /\ records' = r.recs
    /\ Unchanged_by_request

GET_index_stats ==
    /\ ServerAccepts
    /\ \E raises \in BOOLEAN :
          LET r == get_index_stats(vector_store, vs_index, pc_index, records, raises)
          IN resp' = Response("/index/stats", << >>, raises, r.status, r.body, r.calls)
    /\ UNCHANGED records
    /\ Unchanged_by_request

DELETE_index_clear ==
    /\ ServerAccepts
    /\ \E x_admin_token \in Headers, outcome \in DeleteOutcomes :
          LET r == clear_index(settings_admin_token, x_admin_token, vector_store,
                               vs_index, records, outcome)
          IN /\ resp' = Response("/index/clear", x_admin_token, outcome,
                                 r.status, r.body, r.calls)
             /\ records' = r.recs
    /\ Unchanged_by_request

Request ==
    \/ GET_root
    \/ GET_health
    \/ GET_ready
    \/ POST_query
    \/ POST_index_populate
    \/ GET_index_stats
    \/ DELETE_index_clear

Next ==
    \/ lifespan_vector_store
    \/ lifespan_rag_engine
    \/ lifespan_shutdown
    \/ Request

Spec == Init /\ [][Next]_vars

(***************************************************************************)
(* SpecFn: the document processor, the source extraction and generation    *)
(* of the RAG engine, and the populate handler, applied to inputs drawn    *)
(* from bounded sets: any list of articles (the empty list, articles of    *)
(* one url, articles with no content) and any list of context documents    *)
(* (repeated, empty and missing urls).                                     *)
(***************************************************************************)
ArticleUrls == { "A", "B" }

\* A body of n text units.
Content(n) == [ j \in 1 .. n |-> << "p", j >> ]

ArticlePool == { Article(u, "t1", Content(n)) : u \in ArticleUrls, n \in 0 .. MaxPieces }

NoUrl == "<no url key>"

DocUrls == { "A", "B", "", NoUrl }

\* Context documents with the given urls, most similar first; a document
\* whose url is NoUrl has no url key.
Docs(urls) ==
    [ j \in 1 .. Len(urls) |->
        IF urls[j] = NoUrl
        THEN [ title |-> << "t", j >>, text |-> << "x", j >>, score |-> Len(urls) + 1 - j ]
        ELSE [ title |-> << "t", j >>, text |-> << "x", j >>, url |-> urls[j],
               score |-> Len(urls) + 1 - j ] ]

InitFn ==
    /\ settings_embedding_model = DefaultEmbeddingModel
    /\ inflight = NotInFlight
    /\ mw_pending = NothingPending
    /\ create_requests = 0
    /\ init_error = None
    /\ pc_index = ExistingIndex(EmbeddingDim, "cosine")
    /\ records = EmptyRecords
    /\ arg_chunks = << >>
    /\ arg_batch = DefaultBatchSize
    /\ last = NoCall
    /\ resp = NoResponse
    /\ response_headers = << >>
    /\ uuid_calls = 0
    /\ \/ /\ arg_articles \in SeqsUpTo(ArticlePool, MaxArticles)
          /\ arg_docs = << >>
          /\ settings_admin_token \in { "", "secret" }
          /\ \/ /\ lifecycle = "uninitialized"
                /\ vector_store = None /\ rag_engine = None /\ vs_index = None
             \/ /\ lifecycle = "ready"
                /\ vector_store = "VectorStore" /\ rag_engine = "RAGEngine"
                /\ vs_index = "Index"
       \/ /\ arg_articles = << >>
          /\ arg_docs \in { Docs(urls) : urls \in SeqsUpTo(DocUrls, MaxDocs) \ { << >> } }
          /\ settings_admin_token = ""
          /\ lifecycle = "uninitialized"
          /\ vector_store = None /\ rag_engine = None /\ vs_index = None

FnUnchanged ==
    /\ UNCHANGED << vs_index, pc_index, create_requests, arg_chunks, arg_batch,
                    arg_articles, arg_docs >>
    /\ AppUnchanged

Fn_chunk_article ==
    \E k \in 1 .. Len(arg_articles) :
        /\ last' = Done("chunk_article", [ article |-> arg_articles[k] ], << >>,
                        Result(None, chunk_article(arg_articles[k]), << >>))
        /\ UNCHANGED records
        /\ FnUnchanged

Fn_chunk_articles ==
    /\ last' = Done("chunk_articles", [ articles |-> arg_articles ], << >>,
                    Result(None, chunk_articles(arg_articles), << >>))
    /\ UNCHANGED records
    /\ FnUnchanged

Fn_generate_embeddings ==
    \E raises \in BOOLEAN :
        LET chunks == chunk_articles(arg_articles)
        IN /\ last' = Done("generate_embeddings", [ chunks |-> chunks ], raises,
                           generate_embeddings(chunks, raises))
           /\ UNCHANGED records
           /\ FnUnchanged

Fn_process_articles ==
    \E raises \in BOOLEAN :
        /\ last' = Done("process_articles", [ articles |-> arg_articles ], raises,
                        process_articles(arg_articles, raises))
        /\ UNCHANGED records
        /\ FnUnchanged

Fn_extract_sources ==
    /\ last' = Done("_extract_sources", [ docs |-> arg_docs ], << >>,
                    Result(None, _extract_sources(arg_docs), << >>))
    /\ UNCHANGED records
    /\ FnUnchanged

Fn_format_context ==
    /\ last' = Done("_format_context", [ docs |-> arg_docs ], << >>,
                    Result(None, _format_context(arg_docs), << >>))
    /\ UNCHANGED records
    /\ FnUnchanged

Fn_generate ==
    \E include_sources \in BOOLEAN, raises \in BOOLEAN :
        /\ last' = Done("generate",
                        [ context_docs |-> arg_docs, include_sources |-> include_sources ],
                        raises, generate("q", arg_docs, include_sources, raises))
        /\ UNCHANGED records
        /\ FnUnchanged

\* Two rankings the provider can give its records: one, and its reverse.
TwoOrderings(S) ==
    LET o == CHOOSE p \in Orderings(S) : TRUE
    IN { o, [ j \in 1 .. Len(o) |-> o[Len(o) + 1 - j] ] }

\* RAGEngine.query on the index as the populate requests left it.  The
\* provider's ranking is drawn only when the search is reached, and
\* include_sources only when the answer is generated.
Fn_query ==
    /\ arg_docs = << >>
    /\ \E top_k \in { NoTopK, TopK(0), TopK(1) }, include_sources \in BOOLEAN,
          ordering \in TwoOrderings(DOMAIN records), fault \in QueryFaults :
        /\ fault \in { "embed_raises", "search_raises" } =>
              ordering = CHOOSE p \in Orderings(DOMAIN records) : TRUE
        /\ fault # "ok" => include_sources
        /\ last' = Done("query", QueryBody(<< 1 >>, top_k, include_sources),
                        [ fault |-> fault, ordering |-> ordering ],
                        rag_query(vs_index, records,
                                  QueryBody(<< 1 >>, top_k, include_sources), ordering, fault))
        /\ UNCHANGED records
        /\ FnUnchanged

\* The populate handler over the articles drawn in Init; populate requests
\* come first in a run.
Fn_populate_index ==
    /\ arg_docs = << >>
    /\ last.op \in { NoCall.op, "populate_index" }
    /\ \E x_admin_token \in Headers, fault \in PopulateFaults :
        LET r == populate_index(settings_admin_token, x_admin_token, vector_store,
                                vs_index, records, arg_articles, fault)
        IN /\ last' = Done("populate_index", [ x_admin_token |-> x_admin_token ], fault,
                           [ status |-> r.status, body |-> r.body, calls |-> r.calls ])
           /\ records' = r.recs
           /\ FnUnchanged

NextFn ==
    \/ Fn_chunk_article
    \/ Fn_chunk_articles
    \/ Fn_generate_embeddings
    \/ Fn_process_articles
    \/ Fn_extract_sources
    \/ Fn_format_context
    \/ Fn_generate
    \/ Fn_query
    \/ Fn_populate_index

SpecFn == InitFn /\ [][NextFn]_vars

(***************************************************************************)
(* SpecMW: the application behind its add_request_id middleware. Every     *)
(* request goes through the middleware, which draws an identifier, lets    *)
(* the route handler (or the router, for a path with no route) answer,     *)
(* and sets the identifier on the answer.                                  *)
(***************************************************************************)
\* uuid.uuid4 (main.py 11): the value of the call made after n earlier calls;
\* no two calls return the same value.
uuid4(n) == << "uuid", n + 1 >>

\* Mutant of add_request_id: the identifier is drawn once, when the module is
\* loaded, and set on every response.
add_request_id_static(headers, n) ==
    [ h \in DOMAIN headers \cup { "X-Request-ID" } |->
        IF h = "X-Request-ID" THEN uuid4(0) ELSE headers[h] ]

\* main.py 132-142: request_id = str(uuid4()); response = await
\* call_next(request); response.headers["X-Request-ID"] = request_id.
add_request_id(headers, n) ==
    [ h \in DOMAIN headers \cup { "X-Request-ID" } |->
        IF h = "X-Request-ID" THEN uuid4(n) ELSE headers[h] ]

\* The headers of a response as the handler leaves it.
HandlerHeaders == [ h \in { "content-type" } |-> "application/json" ]

\* The handler of the request that drew identifier n has run: its answer is
\* on its way to the middleware and the index is as the handler left it.
Handled(n, route, req, fault, r, recs) ==
    /\ mw_pending' =
          [ mw_pending EXCEPT
              !.drawn = @ \ { n },
              !.handled = [ m \in DOMAIN @ \cup { n } |->
                              IF m = n THEN Response(route, req, fault, r.status, r.body, r.calls)
                              ELSE @[m] ] ]
    /\ records' = recs

\* The handlers that can run below the middleware for the request that drew
\* identifier n: each route, for one request of each kind and the provider
\* behaviours that change its answer, error answers included (an
\* HTTPException or a validation error is turned into a response below the
\* middleware), and the router's 404 for a path with no route.
handler_runs(n) ==
    LET ordering == CHOOSE o \in Orderings(DOMAIN records) : TRUE
    IN \/ Handled(n, "/", << >>, << >>, root, records)
       \/ Handled(n, "/health", << >>, << >>, health_check(vector_store, rag_engine), records)
       \/ \E raises \in BOOLEAN :
             Handled(n, "/ready", << >>, raises,
                     readiness_check(vector_store, rag_engine, vs_index, pc_index, records,
                                     raises), records)
       \/ \E body \in { QueryBody(<< 1 >>, NoTopK, TRUE), QueryBody(<< >>, NoTopK, TRUE) },
             fault \in { "ok", "llm_raises" } :
             Handled(n, "/query", body, fault,
                     query_chatbot(rag_engine, vs_index, records, body, ordering, fault),
                     records)
       \/ \E x \in { "secret", "wrong" }, fault \in { "ok", "upsert_raises" } :
             LET r == populate_index(settings_admin_token, x, vector_store, vs_index, records,
                                     load_help_center_articles, fault)
             IN Handled(n, "/index/populate", x, fault, r, r.recs)
       \/ \E raises \in BOOLEAN :
             Handled(n, "/index/stats", << >>, raises,
                     get_index_stats(vector_store, vs_index, pc_index, records, raises),
                     records)
       \/ \E x \in { "secret", "wrong" }, outcome \in { "ok", "raises" } :
             LET r == clear_index(settings_admin_token, x, vector_store, vs_index, records,
                                  outcome)
             IN Handled(n, "/index/clear", x, outcome, r, r.recs)
       \/ Handled(n, "/no-such-route", << >>, << >>,
                  [ status |-> 404, body |-> [ detail |-> "Not Found" ], calls |-> << >> ],
                  records)

MWUnchanged ==
    UNCHANGED << settings_admin_token, settings_embedding_model, inflight, lifecycle,
                 vector_store, rag_engine, vs_index, pc_index, create_requests, init_error,
                 arg_chunks, arg_batch, arg_articles, arg_docs, last >>

\* main.py 136: request_id = str(uuid4()), then the middleware awaits
\* call_next(request) and other requests may run.
MW_request_received ==
    /\ ServerAccepts
    /\ uuid_calls < MaxRequests
    /\ mw_pending' = [ mw_pending EXCEPT !.drawn = @ \cup { uuid_calls } ]
    /\ uuid_calls' = uuid_calls + 1
    /\ UNCHANGED << records, resp, response_headers >>
    /\ MWUnchanged

\* main.py 139, below call_next: the handler of one waiting request runs,
\* from its first statement to its return, on the event loop.
MW_handler_runs ==
    /\ \E n \in mw_pending.drawn : handler_runs(n)
    /\ UNCHANGED << resp, uuid_calls, response_headers >>
    /\ MWUnchanged

\* main.py 139: await call_next(request) returns the answer of the handler
\* to the middleware; the handlers of other requests may have run since.
MW_call_next_returns ==
    /\ \E n \in DOMAIN mw_pending.handled :
          /\ resp' = mw_pending.handled[n]
          /\ mw_pending' =
                [ mw_pending EXCEPT
                    !.handled = [ m \in DOMAIN @ \ { n } |-> @[m] ],
                    !.answered = @ \cup { n } ]
    /\ UNCHANGED << records, uuid_calls, response_headers >>
    /\ MWUnchanged

\* main.py 141-142: the identifier drawn for the request is set on its
\* response and the response leaves.
MW_response_sent ==
    /\ \E n \in mw_pending.answered :
          /\ mw_pending' = [ mw_pending EXCEPT !.answered = @ \ { n } ]
          /\ response_headers' = Append(response_headers, add_request_id(HandlerHeaders, n))
    /\ UNCHANGED << records, resp, uuid_calls >>
    /\ MWUnchanged

NextMW ==
    \/ MW_request_received
    \/ MW_handler_runs
    \/ MW_call_next_returns
    \/ MW_response_sent

\* The application with an admin token configured and no record at the
\* provider, either served without its lifespan (test_main.py 16: the
\* globals are None) or at the yield of the lifespan (main.py 108).
InitMW ==
    /\ settings_admin_token = "secret"
    /\ settings_embedding_model = DefaultEmbeddingModel
    /\ inflight = NotInFlight
    /\ mw_pending = NothingPending
    /\ \/ /\ lifecycle = "uninitialized"
          /\ vector_store = None /\ rag_engine = None /\ vs_index = None
       \/ /\ lifecycle = "ready"
          /\ vector_store = "VectorStore" /\ rag_engine = "RAGEngine" /\ vs_index = "Index"
    /\ pc_index = ExistingIndex(EmbeddingDim, "cosine")
    /\ records = EmptyRecords
    /\ create_requests = 0
    /\ init_error = None
    /\ arg_chunks = << >>
    /\ arg_batch = DefaultBatchSize
    /\ arg_articles = << >>
    /\ arg_docs = << >>
    /\ last = NoCall
    /\ resp = NoResponse
    /\ response_headers = << >>
    /\ uuid_calls = 0

SpecMW == InitMW /\ [][NextMW]_vars

(***************************************************************************)
(* SpecDim: the embedding model and the dimension of the index.  The       *)
(* deployment chooses settings.embedding_model, and the provider may       *)
(* already hold an index of the configured name from an earlier            *)
(* deployment.  The lifespan connects to the index, then populate and      *)
(* query requests hand vectors of the configured model to it.              *)
(***************************************************************************)
\* config.py 36: the values settings.embedding_model is given in SpecDim.
EmbeddingModels ==
    { DefaultEmbeddingModel, "text-embedding-ada-002", "text-embedding-3-large" }

\* OpenAIEmbeddings(model=self.embedding_model) (document_processor.py 52-56,
\* rag_engine.py 66-70): the length of every vector the client returns.
embedding_dimension(model) ==
    IF model = "text-embedding-3-large" THEN 2 * EmbeddingDim ELSE EmbeddingDim

\* The dimensions of an index an earlier deployment created.
IndexDimensions == { embedding_dimension(m) : m \in EmbeddingModels }

\* The provider accepts a vector only if its length is the dimension of the
\* index: an upsert or a query with another length raises.
provider_rejects_vectors ==
    pc_index.exists /\ embedding_dimension(settings_embedding_model) # pc_index.dimension

InitDim ==
    /\ settings_embedding_model \in EmbeddingModels
    /\ inflight = NotInFlight
    /\ mw_pending = NothingPending
    /\ settings_admin_token = ""
    /\ lifecycle = "uninitialized"
    /\ vector_store = None
    /\ rag_engine = None
    /\ vs_index = None
    /\ records = EmptyRecords
    /\ \/ pc_index = AbsentIndex
       \/ \E d \in IndexDimensions : pc_index = ExistingIndex(d, "cosine")
    /\ create_requests = 0
    /\ init_error = None
    /\ arg_chunks = << >>
    /\ arg_batch = DefaultBatchSize
    /\ arg_articles = << >>
    /\ arg_docs = << >>
    /\ last = NoCall
    /\ resp = NoResponse
    /\ response_headers = << >>
    /\ uuid_calls = 0

\* POST /index/populate against the index the lifespan connected to.
Dim_populate ==
    /\ POST_index_populate
    /\ provider_rejects_vectors => resp'.fault \notin { "ok", "upsert_raises_applied" }

\* POST /query against the index the lifespan connected to.
Dim_query ==
    /\ POST_query
    /\ provider_rejects_vectors => resp'.fault \in { "embed_raises", "search_raises" }

NextDim ==
    \/ lifespan_vector_store
    \/ lifespan_rag_engine
    \/ Dim_populate
    \/ Dim_query

SpecDim == InitDim /\ [][NextDim]_vars

(***************************************************************************)
(* SpecCC: one populate request and one clear request in flight in the     *)
(* single-process server.  A request is received, passes the require_admin *)
(* dependency, waits for the event loop, and then its handler makes its    *)
(* store calls one after the other; a provider call that raises ends the   *)
(* handler with a 500.  The handler passes no batch_size, so the           *)
(* source runs the upsert loop with DefaultBatchSize and the sample        *)
(* articles make one batch; SpecCC also runs the loop with smaller batch   *)
(* sizes, which stand for article sets of more than one batch.             *)
(***************************************************************************)
\* Mutant of event_loop_free: the handlers are declared with def, so each
\* runs in a worker thread whatever the other requests are doing.
event_loop_free_threadpool(flight, r) == TRUE

\* main.py 245, 343: the handlers are async def and never await, so the
\* event loop starts no other handler until the running one has returned.
event_loop_free(flight, r) ==
    \A o \in AdminRequests \ { r } : flight[o].pc # "running"

\* main.py 280-285: the vectors the populate handler hands to upsert_chunks.
populate_vectors == vectors_of(process_articles(load_help_center_articles, FALSE).ret)

InitCC ==
    /\ settings_admin_token \in { "", "secret" }
    /\ settings_embedding_model = DefaultEmbeddingModel
    /\ inflight = NotInFlight
    /\ mw_pending = NothingPending
    /\ lifecycle = "ready"
    /\ vector_store = "VectorStore"
    /\ rag_engine = "RAGEngine"
    /\ vs_index = "Index"
    /\ pc_index = ExistingIndex(EmbeddingDim, "cosine")
    /\ records = EmptyRecords
    /\ create_requests = 0
    /\ init_error = None
    /\ arg_chunks = << >>
    /\ arg_batch \in (1 .. MaxBatch) \cup { DefaultBatchSize }
    /\ arg_articles = << >>
    /\ arg_docs = << >>
    /\ last = NoCall
    /\ resp = NoResponse
    /\ response_headers = << >>
    /\ uuid_calls = 0

CCUnchanged ==
    UNCHANGED << settings_admin_token, settings_embedding_model, mw_pending, lifecycle, vector_store,
                 rag_engine, vs_index, pc_index, create_requests, init_error, arg_chunks,
                 arg_batch, arg_articles, arg_docs, last, resp, response_headers,
                 uuid_calls >>

\* The request r moves to position pc with sent store calls made.
Moved(r, pc, sent, status) ==
    inflight' = [ inflight EXCEPT ![r] = [ pc |-> pc, sent |-> sent, status |-> status ] ]

\* main.py 243, 341: Depends(require_admin) runs before the handler.
CC_require_admin(r) ==
    /\ inflight[r].pc = "idle"
    /\ \E x_admin_token \in Headers :
          IF require_admin(settings_admin_token, x_admin_token)
          THEN Moved(r, "answered", 0, 401)
          ELSE Moved(r, "admitted", 0, 0)
    /\ UNCHANGED records
    /\ CCUnchanged

\* main.py 260-283, 352-357: the event loop starts the handler, which first
\* looks at the vector_store global; the populate handler then loads,
\* chunks and embeds the articles, and answers 500 when that raises.
CC_handler_starts(r) ==
    /\ inflight[r].pc = "admitted"
    /\ event_loop_free(inflight, r)
    /\ IF unset(vector_store)
       THEN Moved(r, "answered", 0, 503)
       ELSE IF r = "populate"
       THEN \E raises \in BOOLEAN :
               IF process_articles(load_help_center_articles, raises).exc # None
               THEN Moved(r, "answered", 0, 500)
               ELSE Moved(r, "running", 0, 0)
       ELSE Moved(r, "running", 0, 0)
    /\ UNCHANGED records
    /\ CCUnchanged

\* What the provider can do with one upsert call: store the batch, raise
\* without storing it, or raise after storing it.
UpsertOutcomes == { "ok", "raises", "raises_applied" }

\* vector_store.py 128-130: one turn of the upsert loop. When the call
\* raises the loop is left and the handler answers 500 (main.py 298-303).
CC_upsert_batch ==
    /\ inflight["populate"].pc = "running"
    /\ inflight["populate"].sent < batches_count(Len(populate_vectors), arg_batch)
    /\ \E outcome \in UpsertOutcomes :
          LET batch == batch_slice(populate_vectors,
                                   inflight["populate"].sent * arg_batch, arg_batch)
          IN /\ records' = IF outcome = "raises" THEN records
                           ELSE ProviderUpsert(records, batch)
             /\ IF outcome = "ok"
                THEN Moved("populate", "running", inflight["populate"].sent + 1, 0)
                ELSE Moved("populate", "answered", inflight["populate"].sent + 1, 500)
    /\ CCUnchanged

\* main.py 289-294: the loop is over and the handler returns the statistics.
CC_populate_returns ==
    /\ inflight["populate"].pc = "running"
    /\ inflight["populate"].sent = batches_count(Len(populate_vectors), arg_batch)
    /\ Moved("populate", "answered", inflight["populate"].sent, 201)
    /\ UNCHANGED records
    /\ CCUnchanged

\* main.py 361, vector_store.py 194: vector_store.delete_all(). When the
\* call raises the handler answers 500 (main.py 364-369).
CC_delete_all ==
    /\ inflight["clear"].pc = "running"
    /\ inflight["clear"].sent = 0
    /\ \E outcome \in DeleteOutcomes :
          LET r == delete_all(vs_index, records, outcome)
          IN /\ records' = r.recs
             /\ IF r.res.exc # None
                THEN Moved("clear", "answered", 1, 500)
                ELSE Moved("clear", "running", 1, 0)
    /\ CCUnchanged

\* main.py 362: the handler returns.
CC_clear_returns ==
    /\ inflight["clear"].pc = "running"
    /\ inflight["clear"].sent = 1
    /\ Moved("clear", "answered", 1, 204)
    /\ UNCHANGED records
    /\ CCUnchanged

NextCC ==
    \/ \E r \in AdminRequests : CC_require_admin(r)
    \/ \E r \in AdminRequests : CC_handler_starts(r)
    \/ CC_upsert_batch
    \/ CC_populate_returns
    \/ CC_delete_all
    \/ CC_clear_returns

SpecCC == InitCC /\ [][NextCC]_vars

(***************************************************************************)
(* Claims about the VectorStore client, checked under SpecVS.              *)
(***************************************************************************)
VSReadOps == { "upsert_chunks", "search", "delete_all", "get_stats" }

\* The number of calls of one name in a call log.
CountCalls(calls, fn) == Cardinality({ j \in 1 .. Len(calls) : calls[j].fn = fn })

\* Is rec the record of chunk: keyed by its chunk_id, holding its embedding
\* and its text.
IsRecordOf(rec, chunk) ==
    /\ rec.id = chunk.metadata.chunk_id
    /\ rec.values = chunk.embedding
    /\ rec.metadata.text = chunk.text
    /\ rec.metadata.chunk_index = chunk.metadata.chunk_index

\* C2: upsert_chunks, search, delete_all or get_stats on a VectorStore whose
\* create_index has not completed fails with a ConfigurationError and issues
\* no call to the index provider. (The code raises ValueError.)
C2_NotInitializedRaisesConfigurationError ==
    (last.op \in VSReadOps /\ ~Truthy(last.pre.index)) =>
        /\ last.res.exc = "ConfigurationError"
        /\ last.res.calls = << >>

\* The part of C2 the code does honour: the call fails before any provider
\* call and leaves the provider's records alone.
C2_NotInitializedFailsWithoutProviderCall ==
    (last.op \in VSReadOps /\ ~Truthy(last.pre.index)) =>
        /\ last.res.exc # None
        /\ last.res.calls = << >>
        /\ records = last.pre.recs

\* What C3 says of one create_index call that returned: an index that was
\* listed is reused without a create request; otherwise exactly one create
\* request is issued, with the given dimension and metric; either way the
\* client is connected.
C3_ReturnedCall ==
    (last.op = "create_index" /\ last.res.exc = None) =>
        LET creates == CountCalls(last.res.calls, "pc.create_index")
        IN /\ last.pre.pidx.exists => (creates = 0 /\ pc_index = last.pre.pidx)
           /\ ~last.pre.pidx.exists =>
                 /\ creates = 1
                 /\ \E j \in 1 .. Len(last.res.calls) :
                       /\ last.res.calls[j].fn = "pc.create_index"
                       /\ last.res.calls[j].arg =
                             [ dimension |-> last.args[1], metric |-> last.args[2] ]
                 /\ pc_index = ExistingIndex(last.args[1], last.args[2])
           /\ vs_index = "Index"

\* C3 as stated: create_index is idempotent, so after any number of
\* create_index calls the provider has been asked to create the index at
\* most once.
C3_AskedToCreateAtMostOnce ==
    /\ C3_ReturnedCall
    /\ create_requests <= 1

\* C3 as amended: a create_index call that returns reuses a listed index
\* without a create request and otherwise issues exactly one; no call, failed
\* or not, issues a create request while the index exists, so the index is
\* created at most once and a create request is repeated only after one that
\* raised without creating the index.
C3_CreateIndexIdempotent ==
    /\ [](/\ C3_ReturnedCall
          /\ last.op = "create_index" =>
                /\ CountCalls(last.res.calls, "pc.create_index") <= 1
                /\ last.pre.pidx.exists =>
                      CountCalls(last.res.calls, "pc.create_index") = 0)
    /\ [][/\ create_requests' # create_requests =>
                (~pc_index.exists /\ create_requests' = create_requests + 1)
          /\ pc_index.exists => pc_index' = pc_index]_vars

\* Witness of C3: a second create_index on a connected store found the index
\* the first one created, and returned.
C3_Witness ==
    /\ last.op = "create_index"
    /\ last.res.exc = None
    /\ last.pre.pidx.exists
    /\ last.pre.index = "Index"
    /\ create_requests = 1

\* C4: when the provider fails on batch k of upsert_chunks the exception is
\* surfaced and no counts are returned, exactly the batches 1..k were sent,
\* each once and in order (batch k is not retried, none follows it), and the
\* records of batches 1..k-1 are in the index.
C4_UpsertFailureAborts ==
    (last.op = "upsert_chunks" /\ last.res.exc = "ProviderError") =>
        LET chunks == last.args.chunks
            bs     == last.args.batch_size
            k      == last.fault.fail_at
            calls  == last.res.calls
            upTo   == Min(k * bs, Len(chunks))
        IN /\ last.res.ret = None
           /\ k >= 1
           /\ Len(calls) = k
           /\ \A j \in 1 .. k :
                 /\ calls[j].fn = "index.upsert"
                 /\ Len(calls[j].arg) = Min(j * bs, Len(chunks)) - (j - 1) * bs
                 /\ \A m \in 1 .. Len(calls[j].arg) :
                       IsRecordOf(calls[j].arg[m], chunks[(j - 1) * bs + m])
           /\ \A m \in 1 .. (k - 1) * bs :
                 /\ chunks[m].metadata.chunk_id \in DOMAIN records
                 /\ \/ IsRecordOf(records[chunks[m].metadata.chunk_id], chunks[m])
                    \/ \E m2 \in (m + 1) .. upTo :
                          chunks[m2].metadata.chunk_id = chunks[m].metadata.chunk_id

\* Witness of C4: three chunks sent one per batch, the provider failing on
\* the second batch.
C4_Witness ==
    /\ last.op = "upsert_chunks"
    /\ last.res.exc = "ProviderError"
    /\ Len(last.args.chunks) = 3
    /\ last.args.batch_size = 1
    /\ last.fault.fail_at = 2
    /\ ~last.fault.applied

\* C5: a successful upsert_chunks sends the record of every chunk exactly once,
\* in input order, in batches of batch_size but for a possibly smaller last
\* one, and returns total_upserted = len(chunks) and batches =
\* ceil(len(chunks) / batch_size); an empty list makes no provider call and
\* returns 0 and 0.
C5_UpsertSendsEveryChunkOnce ==
    (last.op = "upsert_chunks" /\ last.res.exc = None) =>
        LET chunks == last.args.chunks
            bs     == last.args.batch_size
            calls  == last.res.calls
            n      == Len(chunks)
            nb     == Len(calls)
        IN /\ \A j \in 1 .. nb :
                 /\ calls[j].fn = "index.upsert"
                 /\ Len(calls[j].arg) = (IF j < nb THEN bs ELSE n - (nb - 1) * bs)
                 /\ Len(calls[j].arg) \in 1 .. bs
                 /\ \A m \in 1 .. Len(calls[j].arg) :
                       IsRecordOf(calls[j].arg[m], chunks[(j - 1) * bs + m])
           /\ nb * bs >= n
           /\ (nb - 1) * bs < n
           /\ last.res.ret.total_upserted = n
           /\ last.res.ret.batches = nb
           /\ n = 0 => (calls = << >> /\ last.res.ret = [ total_upserted |-> 0, batches |-> 0 ])

\* Witness of C5: three chunks upserted in batches of two, the last batch
\* holding one record.
C5_Witness ==
    /\ last.op = "upsert_chunks"
    /\ last.res.exc = None
    /\ Len(last.args.chunks) = 3
    /\ last.args.batch_size = 2
    /\ Len(last.res.calls) = 2

(***************************************************************************)
(* Claims about the HTTP application, checked under Spec.                  *)
(***************************************************************************)
AdminRoutes == { "/index/populate", "/index/clear" }

\* The routes that need a singleton: all but /health (and /).
GuardedRoutes == { "/query", "/index/populate", "/index/clear", "/index/stats" }

\* Both singletons were set when the request was handled.
WasReady(r) == r.globals.vector_store # None /\ r.globals.rag_engine # None

\* C1: on POST /index/populate and DELETE /index/clear, with an admin token
\* configured a request whose X-Admin-Token is missing or differs is answered
\* 401 and performs no embedding or vector-store operation, and a request with
\* the matching token passes the gate; with no token configured every request
\* passes the gate.
C1_AdminGate ==
    resp.route \in AdminRoutes =>
        /\ (settings_admin_token # "" /\ resp.req # settings_admin_token) =>
              (resp.status = 401 /\ resp.calls = << >>)
        /\ (settings_admin_token # "" /\ resp.req = settings_admin_token) =>
              resp.status # 401
        /\ settings_admin_token = "" => resp.status # 401

\* Witness of C1: on a ready server with a token configured, a clear request
\* with a wrong token was answered 401 and the index kept its records.
C1_Witness ==
    /\ resp.route = "/index/clear"
    /\ settings_admin_token = "secret"
    /\ resp.req = "wrong"
    /\ resp.status = 401
    /\ WasReady(resp)
    /\ DOMAIN records # {}

\* C6: before the ready transition (vector store or RAG engine not yet set)
\* POST /query, POST /index/populate, DELETE /index/clear and GET /index/stats
\* answer 503, given the admin gate passes and the body is valid, and invoke
\* no embedding, language-model or index operation.
C6_UnavailableBeforeReady ==
    (/\ resp.route \in GuardedRoutes
     /\ ~WasReady(resp)
     /\ resp.status # 401
     /\ resp.status # 422) =>
        /\ resp.status = 503
        /\ resp.calls = << >>

\* Witness of C6: a populate request that passed the admin gate before startup
\* was answered 503.
C6_Witness ==
    /\ resp.route = "/index/populate"
    /\ settings_admin_token = "secret"
    /\ resp.req = "secret"
    /\ ~WasReady(resp)
    /\ resp.status = 503

\* C7: when startup initialization raises, the error leaves the lifespan
\* (startup has failed), the application is never ready (the two singletons
\* are never both set), and no request is served afterwards.
C7_FailedStartupServesNothing ==
    /\ [](init_error # None =>
            /\ lifecycle = "failed"
            /\ ~(Truthy(vector_store) /\ Truthy(rag_engine)))
    /\ [][init_error # None =>
            /\ ~Request
            /\ init_error' = init_error
            /\ lifecycle' = "failed"]_vars

\* Witness of C7: create_index raised after the vector_store global was
\* assigned, and startup failed.
C7_Witness ==
    /\ init_error = "ProviderError"
    /\ lifecycle = "failed"
    /\ vector_store # None
    /\ vs_index = None

\* C8: GET /ready answers 200 with status "ready" exactly when both singletons
\* are set and the stats probe of that request succeeds; 503 without probing
\* when either is unset; 503 when the probe raises.
C8_ReadyIffProbeSucceeds ==
    resp.route = "/ready" =>
        LET probe == << Call("index.describe_index_stats", << >>) >>
        IN /\ resp.status \in { 200, 503 }
           /\ resp.status = 200 <=> (WasReady(resp) /\ resp.calls = probe /\ ~resp.fault)
           /\ resp.status = 200 => resp.body.status = "ready"
           /\ ~WasReady(resp) => (resp.status = 503 /\ resp.calls = << >>)
           /\ (WasReady(resp) /\ resp.fault) => (resp.status = 503 /\ resp.calls = probe)

\* Witness of C8: on a ready server the probe raised and /ready answered 503.
C8_Witness ==
    /\ resp.route = "/ready"
    /\ WasReady(resp)
    /\ resp.fault
    /\ resp.status = 503

\* C9: GET /health answers 200 in every lifecycle state, with
\* vector_store_initialized and rag_engine_initialized telling whether the
\* respective singleton is set, and never probes the vector store.
C9_HealthAlways200 ==
    /\ LET now == health_check(vector_store, rag_engine)
       IN /\ now.status = 200
          /\ now.body.vector_store_initialized = (vector_store # None)
          /\ now.body.rag_engine_initialized = (rag_engine # None)
          /\ now.calls = << >>
    /\ resp.route = "/health" =>
          /\ resp.status = 200
          /\ resp.body.vector_store_initialized = (resp.globals.vector_store # None)
          /\ resp.body.rag_engine_initialized = (resp.globals.rag_engine # None)
          /\ resp.calls = << >>

\* Witness of C9: /health answered 200 before startup, reporting both
\* singletons unset.
C9_Witness ==
    /\ resp.route = "/health"
    /\ resp.status = 200
    /\ ~resp.body.vector_store_initialized
    /\ ~resp.body.rag_engine_initialized
    /\ lifecycle = "uninitialized"

\* The bodies C10 rejects: question missing, empty or longer than 1000
\* characters, or top_k outside 1..10.
C10_Rejected(body) ==
    \/ body.question = << >>
    \/ body.question # << >> /\ body.question[1] = 0
    \/ body.question # << >> /\ body.question[1] > MaxQuestionLen
    \/ body.top_k # << >> /\ body.top_k[1] \notin MinTopK .. MaxTopK

\* C10: a POST /query with such a body is answered 422 before any component
\* is reached (no embedding, search or language-model call), in every
\* lifecycle state; any other body is not answered 422, and before
\* initialization it is answered 503.
C10_InvalidQueryIs422 ==
    resp.route = "/query" =>
        /\ C10_Rejected(resp.req) => (resp.status = 422 /\ resp.calls = << >>)
        /\ ~C10_Rejected(resp.req) => resp.status # 422
        /\ (~C10_Rejected(resp.req) /\ resp.globals.rag_engine = None) => resp.status = 503

\* Witness of C10: before startup, a question of 1001 characters was answered
\* 422.
C10_Witness ==
    /\ resp.route = "/query"
    /\ resp.req.question = << MaxQuestionLen + 1 >>
    /\ resp.req.top_k = << >>
    /\ resp.globals.rag_engine = None
    /\ resp.status = 422

(***************************************************************************)
(* Claims about failures of the external providers, checked under Spec.    *)
(***************************************************************************)
\* The external calls a request makes once at most.
SingleCalls ==
    { "embeddings.embed_query", "index.query", "llm.invoke", "embeddings.embed_documents",
      "index.delete", "index.describe_index_stats" }

\* The external call that the fault injected into request r makes fail, or
\* None when r was given no provider failure.
FailingCall(r) ==
    IF r.route = "/query"
    THEN CASE r.fault = "embed_raises"  -> "embeddings.embed_query"
           [] r.fault = "search_raises" -> "index.query"
           [] r.fault = "llm_raises"    -> "llm.invoke"
           [] OTHER -> None
    ELSE IF r.route = "/index/populate"
    THEN CASE r.fault = "embed_raises" -> "embeddings.embed_documents"
           [] r.fault \in { "upsert_raises", "upsert_raises_applied" } -> "index.upsert"
           [] OTHER -> None
    ELSE IF r.route = "/index/clear"
    THEN IF r.fault \in { "raises", "raises_deleted" } THEN "index.delete" ELSE None
    ELSE IF r.route \in { "/ready", "/index/stats" }
    THEN IF r.fault THEN "index.describe_index_stats" ELSE None
    ELSE None

\* The handler of r reached the external call that fails.
ProviderFailed(r) == \E j \in 1 .. Len(r.calls) : r.calls[j].fn = FailingCall(r)

\* The fields only a successful answer carries.
AnswerFields ==
    { "answer", "sources", "num_sources", "total_upserted", "batches", "total_vectors",
      "status" }

\* C11: within one request each external call (query embedding, index search,
\* completion, batch embedding, each upsert batch, delete, stats) is attempted
\* once at most, the call that fails is the last one attempted, and the request
\* is then answered 500 (503 on /ready) with an error detail and nothing of a
\* successful answer.
C11_NoRetryFirstFailureFails ==
    /\ \A fn \in SingleCalls : CountCalls(resp.calls, fn) <= 1
    /\ \A j, k \in 1 .. Len(resp.calls) : resp.calls[j] = resp.calls[k] => j = k
    /\ ProviderFailed(resp) =>
          /\ resp.calls[Len(resp.calls)].fn = FailingCall(resp)
          /\ resp.status = IF resp.route = "/ready" THEN 503 ELSE 500
          /\ DOMAIN resp.body \cap AnswerFields = {}

C11_Witness ==
    /\ resp.route = "/query"
    /\ resp.fault = "llm_raises"
    /\ Len(resp.calls) = 3
    /\ resp.status = 500

(***************************************************************************)
(* Claims about the populate handler, the document processor and the       *)
(* generation step, checked under SpecFn.                                  *)
(***************************************************************************)
\* C12: POST /index/populate answers 401 when a configured admin token is
\* missing or mismatched; else 503 when the vector store is unset; else 404
\* when no article is loaded, with nothing embedded or upserted; else 500 when
\* chunking, embedding or upserting raises; else 201 with articles_processed
\* the number of articles, chunks_created = total_upserted the number of
\* chunks and batches the number of upsert calls.
C12_PopulateOutcomeOrder ==
    last.op = "populate_index" =>
        LET r      == last.res
            denied == settings_admin_token # ""
                      /\ last.args.x_admin_token # settings_admin_token
            chunks == Len(chunk_articles(arg_articles))
        IN /\ r.status = IF denied THEN 401
                         ELSE IF vector_store = None THEN 503
                         ELSE IF arg_articles = << >> THEN 404
                         ELSE IF last.fault # "ok" THEN 500
                         ELSE 201
           /\ r.status = 404 => (r.calls = << >> /\ records = last.pre.recs)
           /\ r.status = 201 =>
                 /\ r.body.articles_processed = Len(arg_articles)
                 /\ r.body.chunks_created = chunks
                 /\ r.body.total_upserted = chunks
                 /\ r.body.batches = CountCalls(r.calls, "index.upsert")
                 /\ CountCalls(r.calls, "embeddings.embed_documents") = 1

C12_Witness ==
    /\ last.op = "populate_index"
    /\ settings_admin_token = "secret"
    /\ last.args.x_admin_token = "secret"
    /\ vector_store # None
    /\ arg_articles = << >>
    /\ last.fault = "embed_raises"
    /\ last.res.status = 404

(***************************************************************************)
(* Claims about clearing the index and about responses, checked under Spec.*)
(***************************************************************************)
NoRecords == DOMAIN records = {}

\* C13: after DELETE /index/clear answered 204 the index holds no record;
\* while it holds none, /index/stats reports total_vectors = 0 and a query
\* retrieves no document; and an empty index gets a record only through the
\* upsert of a populate request.
C13_ClearedIndexIsEmpty ==
    /\ [] ( /\ (resp.route = "/index/clear" /\ resp.status = 204) => NoRecords
            /\ (resp.route = "/index/stats" /\ resp.status = 200 /\ NoRecords)
                  => resp.body.total_vectors = 0
            /\ (resp.route = "/query" /\ resp.status = 200 /\ NoRecords)
                  => (resp.body.num_sources = 0
                      /\ (resp.req.include_sources => resp.body.sources = << >>)) )
    /\ [][ (NoRecords /\ ~NoRecords')
              => (resp'.route = "/index/populate"
                  /\ CountCalls(resp'.calls, "index.upsert") > 0) ]_vars

C13_Witness ==
    /\ resp.route = "/index/clear"
    /\ resp.status = 204
    /\ resp.stored > 0
    /\ NoRecords

(***************************************************************************)
(* Claims about the sources of an answer, checked under SpecFn.            *)
(***************************************************************************)
\* The url of the j-th context document, "" when it has none.
UrlAt(docs, j) == IF "url" \in DOMAIN docs[j] THEN docs[j].url ELSE ""

\* The positions of the documents that are the first of their non-empty url.
FirstOfUrl(docs) ==
    { j \in 1 .. Len(docs) :
        UrlAt(docs, j) # "" /\ \A i \in 1 .. j - 1 : UrlAt(docs, i) # UrlAt(docs, j) }

\* The k-th smallest member of a set of positions.
KthOf(S, k) == CHOOSE j \in S : Cardinality({ i \in S : i < j }) = k - 1

\* C14: _extract_sources returns, in retrieval order, one source for the
\* first document of each distinct non-empty url, with that document's title
\* and score, and none for a document whose url is empty or missing; its urls
\* are pairwise distinct, and for the urls [A, A, B, ""] it is exactly [A, B]
\* with the score of the first A.
C14_SourcesFirstOfEachUrl ==
    last.op = "_extract_sources" =>
        LET docs  == last.args.docs
            out   == last.res.ret
            firsts == FirstOfUrl(docs)
        IN /\ Len(out) = Cardinality(firsts)
           /\ \A k \in 1 .. Len(out) :
                 LET j == KthOf(firsts, k)
                 IN out[k] = [ title |-> docs[j].title, url |-> docs[j].url,
                               relevance_score |-> docs[j].score ]
           /\ \A k, l \in 1 .. Len(out) : out[k].url = out[l].url => k = l
           /\ docs = Docs(<< "A", "A", "B", "" >>) =>
                 out = << [ title |-> << "t", 1 >>, url |-> "A", relevance_score |-> 4 ],
                          [ title |-> << "t", 3 >>, url |-> "B", relevance_score |-> 2 ] >>

C14_Witness ==
    /\ last.op = "_extract_sources"
    /\ last.args.docs = Docs(<< "A", "A", "B", "" >>)
    /\ Len(last.res.ret) = 2

\* C15 (the result of generate): the sources key is in the result exactly when
\* include_sources is true. Holds under SpecFn.
C15_GenerateOmitsSources ==
    (last.op = "generate" /\ last.res.exc = None) =>
        ("sources" \in DOMAIN last.res.ret <=> last.args.include_sources)

\* C15: the body of a 200 answer of POST /query has a sources field exactly
\* when the request's include_sources is true. Violated under Spec: the body
\* is a QueryResponse, whose sources field is always there and is null when
\* the result has none.
C15_BodyOmitsSources ==
    (resp.route = "/query" /\ resp.status = 200) =>
        ("sources" \in DOMAIN resp.body <=> resp.req.include_sources)

\* C16: num_sources in the result of generate is the number of context
\* documents it was given, those with an empty or missing url and the repeats
\* of a url included, so it is never smaller than the length of sources.
C16_NumSourcesCountsDocuments ==
    (last.op = "generate" /\ last.res.exc = None) =>
        /\ last.res.ret.num_sources = Len(last.args.context_docs)
        /\ last.args.include_sources => last.res.ret.num_sources >= Len(last.res.ret.sources)

C16_Witness ==
    /\ last.op = "generate"
    /\ last.res.exc = None
    /\ last.args.include_sources
    /\ last.args.context_docs = Docs(<< "A", NoUrl, "A", "" >>)
    /\ last.res.ret.num_sources = 4
    /\ Len(last.res.ret.sources) = 1

(***************************************************************************)
(* Claims about search, checked under SpecVS.                              *)
(***************************************************************************)
\* What C17 says of a search that returned, when the provider is to be asked
\* for k matches: the one query made, and one record per match the provider
\* returned, at most k, in the provider's order (most similar first), each
\* with id, score, text, title, url and metadata, none added, dropped or
\* reordered.
SearchReturned(k) ==
    LET ordering == last.fault.ordering
        recs     == last.pre.recs
        out      == last.res.ret
    IN /\ last.res.calls = << Call("index.query", [ vector |-> "q", top_k |-> k ]) >>
       /\ Len(out) <= k
       /\ Len(out) = Min(k, Len(ordering))
       /\ \A j \in 1 .. Len(out) :
             /\ DOMAIN out[j] = { "id", "score", "text", "title", "url", "metadata" }
             /\ out[j].id = ordering[j]
             /\ out[j].score = Len(ordering) + 1 - j
             /\ out[j].text = recs[ordering[j]].metadata.text
             /\ out[j].title = recs[ordering[j]].metadata.title
             /\ out[j].url = recs[ordering[j]].metadata.url
             /\ out[j].metadata = recs[ordering[j]].metadata
       /\ \A j \in 1 .. Len(out) - 1 : out[j].score > out[j + 1].score

\* C17 as stated: search returns at most top_k records for every top_k
\* given, 0 included, in the provider's order with every field, and the
\* configured top_k_results is used only when top_k is not given.
C17_SearchReturnsAtMostTopK ==
    (last.op = "search" /\ last.res.exc = None) =>
        SearchReturned(IF last.args.top_k = NoTopK THEN TopKResults ELSE last.args.top_k[1])

\* C17, amended: search returns at most top_k records when top_k is 1 or
\* more; when top_k is not given or is 0 the configured top_k_results is
\* used and at most that many records are returned; in every case the
\* records are the provider's matches in the provider's order (most similar
\* first), each with id, score, text, title, url and metadata, none added,
\* dropped or reordered.
C17_SearchKeepsProviderOrder ==
    (last.op = "search" /\ last.res.exc = None) =>
        SearchReturned(IF last.args.top_k = NoTopK \/ last.args.top_k[1] = 0
                       THEN TopKResults ELSE last.args.top_k[1])

C17_Witness ==
    /\ last.op = "search"
    /\ last.res.exc = None
    /\ last.args.top_k = TopK(1)
    /\ Len(last.fault.ordering) = 2
    /\ Len(last.res.ret) = 1

\* A search with top_k = 0 that returned more than 0 records.
C17_WitnessZero ==
    /\ last.op = "search"
    /\ last.res.exc = None
    /\ last.args.top_k = TopK(0)
    /\ Len(last.res.ret) > last.args.top_k[1]
    /\ Len(last.res.ret) <= TopKResults

C17_WitnessDefault ==
    /\ last.op = "search"
    /\ last.res.exc = None
    /\ last.args.top_k = NoTopK
    /\ Len(last.res.ret) = 2

(***************************************************************************)
(* Claims about the document processor, checked under SpecFn.              *)
(***************************************************************************)
\* C18: the chunks chunk_article returns for an article carry chunk_index
\* 0, 1, .., n-1 in order, and every one has total_chunks = n, the number of
\* chunks returned.
C18_ChunkIndexDense ==
    last.op = "chunk_article" =>
        LET out == last.res.ret
        IN \A i \in 1 .. Len(out) :
              /\ out[i].metadata.chunk_index = i - 1
              /\ out[i].metadata.total_chunks = Len(out)

C18_Witness ==
    /\ last.op = "chunk_article"
    /\ Len(last.res.ret) = 2
    /\ last.res.ret[2].metadata.chunk_index = 1

\* The articles of a list have pairwise distinct urls.
DistinctUrls(articles) ==
    \A j, k \in 1 .. Len(articles) : articles[j].url = articles[k].url => j = k

\* No two chunks of a list share a chunk_id.
DistinctChunkIds(chunks) ==
    \A j, k \in 1 .. Len(chunks) :
        chunks[j].metadata.chunk_id = chunks[k].metadata.chunk_id => j = k

\* C19 as stated: no two chunks chunk_articles returns for a list of articles
\* share a chunk_id. Violated by a list with two articles of one url.
C19_ChunkIdsUnique ==
    last.op = "chunk_articles" => DistinctChunkIds(last.res.ret)

\* C19 amended: for a list of articles with pairwise distinct urls no two
\* chunks chunk_articles returns share a chunk_id, and a populate that
\* answers 201 leaves one record per chunk: no record of the run overwrote
\* another.
C19_ChunkIdsUniqueForDistinctUrls ==
    /\ (last.op = "chunk_articles" /\ DistinctUrls(last.args.articles))
          => DistinctChunkIds(last.res.ret)
    /\ (last.op = "populate_index" /\ last.res.status = 201 /\ DistinctUrls(arg_articles))
          => Cardinality(DOMAIN records) = last.res.body.chunks_created

C19_Witness ==
    /\ last.op = "chunk_articles"
    /\ Len(last.args.articles) = 2
    /\ DistinctUrls(last.args.articles)
    /\ Len(last.res.ret) = 4

\* C20 (the call and its effect): generate_embeddings issues one provider
\* call with all chunk texts; when it fails an exception leaves the method
\* and no chunk has an embedding; when it succeeds chunk i carries the i-th
\* embedding the provider returned. Holds under SpecFn.
C20_EmbedsAllOrNothing ==
    last.op = "generate_embeddings" =>
        LET chunks == last.args.chunks
            texts  == [ j \in 1 .. Len(chunks) |-> chunks[j].text ]
            r      == last.res
        IN /\ r.calls = << Call("embeddings.embed_documents", texts) >>
           /\ last.fault => (r.exc # None /\ r.chunks = chunks
                             /\ \A j \in 1 .. Len(chunks) : "embedding" \notin DOMAIN r.chunks[j])
           /\ ~last.fault => (/\ r.exc = None
                              /\ Len(r.ret) = Len(chunks)
                              /\ \A j \in 1 .. Len(chunks) :
                                    /\ r.ret[j].embedding = embed_documents(texts)[j]
                                    /\ r.ret[j].text = chunks[j].text
                                    /\ r.ret[j].metadata = chunks[j].metadata)

\* C20: when the provider call of generate_embeddings errors, the exception
\* that leaves the method is an EmbeddingException and no chunk has been given
\* an embedding. Violated under SpecFn: the provider's own exception is
\* re-raised.
C20_EmbeddingFailureSignalled ==
    (last.op = "generate_embeddings" /\ last.fault) =>
        /\ last.res.exc = "EmbeddingException"
        /\ \A j \in 1 .. Len(last.res.chunks) : "embedding" \notin DOMAIN last.res.chunks[j]

\* The number of chunks of the articles in front of the k-th.
RECURSIVE ChunksBefore(_, _)
ChunksBefore(articles, k) ==
    IF k <= 1 THEN 0
    ELSE ChunksBefore(articles, k - 1) + Len(chunk_article(articles[k - 1]))

\* C21: process_articles makes exactly one embedding call, and its argument
\* is the texts of the chunks of all articles, article after article; when
\* the call returns, the result holds the chunks in article order and, within
\* an article, in chunk_index order, each with its embedding.
C21_OneEmbeddingCallForAllArticles ==
    last.op = "process_articles" =>
        LET articles == last.args.articles
            total    == ChunksBefore(articles, Len(articles) + 1)
            r        == last.res
        IN /\ Len(r.calls) = 1
           /\ r.calls[1].fn = "embeddings.embed_documents"
           /\ Len(r.calls[1].arg) = total
           /\ \A k \in 1 .. Len(articles) :
                 LET own == chunk_article(articles[k])
                 IN \A i \in 1 .. Len(own) :
                       r.calls[1].arg[ChunksBefore(articles, k) + i] = own[i].text
           /\ r.exc = None =>
                 /\ Len(r.ret) = total
                 /\ \A k \in 1 .. Len(articles) :
                       LET own == chunk_article(articles[k])
                       IN \A i \in 1 .. Len(own) :
                             LET c == r.ret[ChunksBefore(articles, k) + i]
                             IN /\ c.text = own[i].text
                                /\ c.metadata = own[i].metadata
                                /\ c.metadata.chunk_index = i - 1
                                /\ c.embedding = << "emb", own[i].text >>

C21_Witness ==
    /\ last.op = "process_articles"
    /\ last.res.exc = None
    /\ Len(last.args.articles) = 2
    /\ Len(last.res.ret) = 4
    /\ Len(last.res.calls) = 1

\* C22 (the statistic): the average chunk size chunk_article logs is defined
\* for every article and is 0 for an empty chunk list. Holds under SpecFn.
C22_AverageGuarded ==
    /\ avg_chunk_size(<< >>) = 0
    /\ last.op = "chunk_article" =>
          avg_chunk_size(split_text(full_text(last.args.article))) >= 0

\* C22: chunk_article returns the empty list for an article with empty
\* content, and a populate over such articles leaves no record of them.
\* Violated under SpecFn: the heading built from the title is split like any
\* text and makes one chunk.
C22_EmptyContentNoChunks ==
    /\ (last.op = "chunk_article" /\ last.args.article.content = << >>)
          => last.res.ret = << >>
    /\ (last.op = "populate_index" /\ last.res.status = 201
        /\ \A k \in 1 .. Len(arg_articles) : arg_articles[k].content = << >>)
          => records = EmptyRecords

(***************************************************************************)
(* Claims about the request identifier, checked under SpecMW.              *)
(***************************************************************************)
\* The identifiers on the responses sent so far.
SentIds == { response_headers[j]["X-Request-ID"] : j \in 1 .. Len(response_headers) }

\* The requests still inside the middleware.
Pending == mw_pending.drawn \cup DOMAIN mw_pending.handled \cup mw_pending.answered

\* C23: every response sent, whatever its status, carries an X-Request-ID
\* header, and no two responses carry the same identifier, also when the
\* requests are in flight together and answered out of order.
C23_EveryResponseHasFreshRequestId ==
    /\ Len(response_headers) + Cardinality(Pending) = uuid_calls
    /\ (resp.route # "none") => uuid_calls > 0
    /\ \A j \in 1 .. Len(response_headers) : "X-Request-ID" \in DOMAIN response_headers[j]
    /\ \A j, k \in 1 .. Len(response_headers) :
          response_headers[j]["X-Request-ID"] = response_headers[k]["X-Request-ID"] => j = k
    /\ SentIds \cap { uuid4(n) : n \in Pending } = {}

\* Every request has been answered, a 500 among the answers, and the first
\* response to leave belongs to the request received second.
C23_Witness ==
    /\ resp.status = 500
    /\ Len(response_headers) = MaxRequests
    /\ "X-Request-ID" \in DOMAIN response_headers[MaxRequests]
    /\ response_headers[1]["X-Request-ID"] = uuid4(1)
    /\ response_headers[2]["X-Request-ID"] = uuid4(0)

\* call_next returns the 201 of a populate after the handler of a clear
\* has emptied the index again.
C23_WitnessHandlerInBetween ==
    /\ resp.route = "/index/populate"
    /\ resp.status = 201
    /\ resp.stored = 0
    /\ records = EmptyRecords
    /\ mw_pending.answered # {}

\* Two identifiers are drawn before any response exists.
C23_WitnessInFlightTogether ==
    /\ uuid_calls = 2
    /\ response_headers = << >>
    /\ resp.route = "none"

(***************************************************************************)
(* Claims about the query pipeline, checked under SpecFn.                  *)
(***************************************************************************)
\* The names of the calls of a call log, in order.
CallNames(calls) == [ j \in 1 .. Len(calls) |-> calls[j].fn ]

\* C24: query embeds the question, then searches, then generates. The calls
\* are made in that order; the language model is invoked only when the
\* embedding and the search returned, and with a context built from exactly
\* the list search returned, in its order; the result counts and cites those
\* documents.
C24_EmbedSearchGenerate ==
    last.op = "query" =>
        LET r       == last.res
            fault   == last.fault.fault
            found   == search(last.pre.index, last.pre.recs, << "emb", last.args.question >>,
                              last.args.top_k, last.fault.ordering, fault = "search_raises")
            names   == CallNames(r.calls)
            invoked == \E j \in 1 .. Len(r.calls) : r.calls[j].fn = "llm.invoke"
        IN /\ \E n \in 0 .. 3 :
                 names = SubSeq(<< "embeddings.embed_query", "index.query", "llm.invoke" >>, 1, n)
           /\ names # << >>
           /\ invoked <=> (fault # "embed_raises" /\ found.exc = None)
           /\ invoked =>
                 r.calls[3].arg = [ context  |-> _format_context(found.ret),
                                    question |-> last.args.question ]
           /\ r.exc = None =>
                 /\ invoked
                 /\ r.ret.num_sources = Len(found.ret)
                 /\ last.args.include_sources => r.ret.sources = _extract_sources(found.ret)

C24_Witness ==
    /\ last.op = "query"
    /\ last.res.exc = None
    /\ last.res.ret.num_sources = 3
    /\ Len(last.res.calls) = 3

C24_WitnessSearchFailed ==
    /\ last.op = "query"
    /\ last.fault.fault = "search_raises"
    /\ last.pre.index # None
    /\ Len(last.res.calls) = 2

\* The length of one entry of the context, and of an entry with the newline
\* that joins it to the next.
EntryLen == Len(context_part(1, [ title |-> "", text |-> "" ]))
EntryStep == EntryLen + 1

\* C30: the context _format_context builds has one entry per document, in
\* the order of the documents: "[Source i] " with i counting from 1, the
\* document's title, a newline, its text, a newline; entries are joined by a
\* newline, and the context of an empty list is the empty string.
C30_ContextOneEntryPerDocument ==
    last.op = "_format_context" =>
        LET docs == last.args.docs
            out  == last.res.ret
            n    == Len(docs)
        IN /\ n = 0 => out = << >>
           /\ n > 0 => Len(out) = EntryLen * n + (n - 1)
           /\ \A i \in 1 .. n :
                 LET at == EntryStep * (i - 1)
                 IN /\ out[at + 1] = Tok("lit", "[Source ")
                    /\ out[at + 2] = Tok("int", i)
                    /\ out[at + 3] = Tok("lit", "] ")
                    /\ out[at + 4] = Tok("str", docs[i].title)
                    /\ out[at + 5] = Tok("lit", "\n")
                    /\ out[at + 6] = Tok("str", docs[i].text)
                    /\ out[at + 7] = Tok("lit", "\n")
                    /\ i < n => out[at + EntryStep] = Tok("lit", "\n")

C30_Witness ==
    /\ last.op = "_format_context"
    /\ Len(last.args.docs) = 2
    /\ Len(last.res.ret) = 2 * EntryLen + 1
    /\ last.res.ret[10] = Tok("int", 2)

C30_WitnessEmpty ==
    /\ last.op = "_format_context"
    /\ last.args.docs = << >>
    /\ last.res.ret = << >>

(***************************************************************************)
(* Claims about what requests change, checked under Spec.                  *)
(***************************************************************************)
ReadRoutes == { "/health", "/ready", "/index/stats", "/query" }

\* C25: once startup has completed, a request changes neither the
\* vector_store and rag_engine globals nor the index connection of the store,
\* and a request to /health, /ready, /index/stats or /query leaves the
\* records of the index as they were.
C25_RequestsKeepSharedState ==
    [][ (lifecycle = "ready" /\ lifecycle' = "ready") =>
           /\ vector_store' = vector_store
           /\ rag_engine' = rag_engine
           /\ vs_index' = vs_index
           /\ pc_index' = pc_index
           /\ resp'.route \in ReadRoutes => records' = records ]_vars

C25_Witness ==
    /\ lifecycle = "ready"
    /\ resp.route = "/query"
    /\ resp.status = 200
    /\ resp.stored = 3
    /\ vector_store = "VectorStore"
    /\ rag_engine = "RAGEngine"
    /\ vs_index = "Index"
    /\ records = PopulatedRecords

(***************************************************************************)
(* Claims about repeated population, checked under SpecFn.                 *)
(***************************************************************************)
\* The index one populate over the articles leaves when it starts empty.
PopulatedOnce(articles) ==
    upsert_chunks("Index", EmptyRecords, process_articles(articles, FALSE).ret,
                  DefaultBatchSize, 0, FALSE).recs

\* C26: a populate that answers 201 leaves the index exactly as one populate
\* over the same articles leaves an empty index, whether or not the index
\* already held the records of an earlier populate: the same record ids with
\* the same contents.
C26_PopulateIdempotent ==
    (last.op = "populate_index" /\ last.res.status = 201) =>
        /\ DOMAIN records = DOMAIN PopulatedOnce(arg_articles)
        /\ records = PopulatedOnce(arg_articles)
        /\ last.pre.recs # EmptyRecords => records = last.pre.recs

C26_Witness ==
    /\ last.op = "populate_index"
    /\ last.res.status = 201
    /\ last.pre.recs = PopulatedOnce(arg_articles)
    /\ Cardinality(DOMAIN records) = 4
    /\ records = last.pre.recs


(***************************************************************************)
(* Claims about the embedding dimension, checked under SpecDim.            *)
(***************************************************************************)
\* The length of the vectors in one call to the index: both embeddings
\* clients are built with settings.embedding_model.
VectorCalls(calls) ==
    { j \in 1 .. Len(calls) : calls[j].fn \in { "index.upsert", "index.query" } }

\* Supporting C27: with the default embedding model and an index the
\* lifespan created itself, every vector handed to the index has the
\* dimension of the index.
C27_DefaultDeploymentMatches ==
    (/\ settings_embedding_model = DefaultEmbeddingModel
     /\ create_requests > 0
     /\ VectorCalls(resp.calls) # {}) =>
        embedding_dimension(settings_embedding_model) = pc_index.dimension

\* C27: every vector upserted to, or used to query, the index that
\* create_index connected to has that index's dimension, including when
\* create_index reuses an index that already existed and when a non-default
\* embedding model is configured.
C27_VectorsHaveIndexDimension ==
    VectorCalls(resp.calls) # {} =>
        embedding_dimension(settings_embedding_model) = pc_index.dimension


(***************************************************************************)
(* Claims about top_k, checked under SpecVS (search called directly) and   *)
(* holding under SpecFn as well (search reached through query/retrieve).   *)
(***************************************************************************)
\* The top_k values the provider was queried with by the last call.
QueriedTopK ==
    { last.res.calls[j].arg.top_k :
        j \in { i \in 1 .. Len(last.res.calls) : last.res.calls[i].fn = "index.query" } }

\* C28: a top_k of 0 passed to search, directly or through retrieve/query,
\* is treated as unset: the provider is queried with the configured default
\* top_k_results, exactly as when top_k is None; any top_k >= 1 is passed
\* through unchanged.
C28_ZeroTopKIsUnset ==
    (last.op \in { "search", "query" } /\ QueriedTopK # {}) =>
        LET top_k == last.args.top_k
        IN /\ top_k \in { NoTopK, TopK(0) } => QueriedTopK = { TopKResults }
           /\ (top_k # NoTopK /\ top_k[1] >= 1) => QueriedTopK = { top_k[1] }

C28_Witness ==
    /\ last.op = "search"
    /\ last.args.top_k = TopK(0)
    /\ QueriedTopK = { TopKResults }
    /\ last.res.exc = None
    /\ Len(last.res.ret) > 0

C28_WitnessPassedThrough ==
    /\ last.op = "search"
    /\ last.args.top_k = TopK(1)
    /\ QueriedTopK = { 1 }
    /\ Len(last.res.ret) = 1

C28_WitnessThroughQuery ==
    /\ last.op = "query"
    /\ last.args.top_k = TopK(0)
    /\ QueriedTopK = { TopKResults }
    /\ last.res.exc = None


(***************************************************************************)
(* Claims about requests in flight together, checked under SpecCC.         *)
(***************************************************************************)
\* The handler of request r is between its first and its last statement.
Running(r) == inflight[r].pc = "running"

\* The index when exactly the first k batches of the populate are stored.
FirstBatches(k) ==
    LET n == Min(k * arg_batch, Len(populate_vectors))
    IN [ id \in { populate_vectors[j].id : j \in 1 .. n } |->
           populate_vectors[CHOOSE j \in 1 .. n : populate_vectors[j].id = id] ]

\* C29 as stated: the store operations of a populate and a clear request in
\* flight together never interleave, so starting from an empty index,
\* whenever the populate handler is not in the middle of its loop the index
\* is either empty or holds the populate's complete chunk set, never a
\* non-empty strict subset of it.
C29_AdminHandlersDoNotInterleave ==
    /\ ~(Running("populate") /\ Running("clear"))
    /\ ~Running("populate") =>
          records \in { EmptyRecords, PopulatedOnce(load_help_center_articles) }

\* C29, amended: the two handlers never run their store calls interleaved:
\* while the populate is in its loop the index holds exactly the batches it
\* has upserted so far, and once it is out of the loop the index is empty or
\* holds the complete chunk set, except that a populate which answered 500
\* because one of its own upsert calls raised can leave the batches it had
\* stored before the failure.
C29_SubsetOnlyAfterFailedUpsert ==
    /\ ~(Running("populate") /\ Running("clear"))
    /\ Running("populate") => records = FirstBatches(inflight["populate"].sent)
    /\ ~Running("populate") =>
          \/ records \in { EmptyRecords, PopulatedOnce(load_help_center_articles) }
          \/ /\ inflight["populate"].status = 500
             /\ \E k \in 1 .. inflight["populate"].sent : records = FirstBatches(k)

\* The clear request waits while the populate is between two batches.
C29_Witness ==
    /\ Running("populate")
    /\ inflight["populate"].sent > 0
    /\ inflight["populate"].sent < batches_count(Len(populate_vectors), arg_batch)
    /\ records \notin { EmptyRecords, PopulatedOnce(load_help_center_articles) }
    /\ inflight["clear"].pc = "admitted"

\* Both requests were answered and the clear ran first.
C29_WitnessBothAnswered ==
    /\ inflight["populate"].status = 201
    /\ inflight["clear"].status = 204
    /\ arg_batch < Len(populate_vectors)
    /\ records = PopulatedOnce(load_help_center_articles)

\* The populate failed at a later batch while the clear was waiting, and a
\* non-empty strict subset is in the index.
C29_WitnessFailedUpsert ==
    /\ inflight["populate"].status = 500
    /\ inflight["clear"].pc = "admitted"
    /\ records \notin { EmptyRecords, PopulatedOnce(load_help_center_articles) }

====
